---- MODULE Spec2Model ----
(***************************************************************************)
(* Hardware coordination layer of shell-sorter: the three device actors    *)
(* (ESPHome camera manager, USB camera manager, controller monitor), their *)
(* command channels, one-shot reply slots and status cells.                *)
(*                                                                         *)
(* Strings that the code takes apart (hostnames, camera ids) are sequences *)
(* of tokens, e.g. "http://cam-b:80" is <<"http://", "cam-b", ":", "80">>. *)
(***************************************************************************)
EXTENDS Integers, Sequences, FiniteSets, TLC

\* Number of operations the callers invoke in one run, per exercised actor.
MaxEspReq == 3

MaxUsbReq == 2

MaxCtlReq == 2

\* The same, in the runs that also stop actors and publish Shutdown.
MaxLifeEspReq == 2

MaxLifeReq == 1

\* Health-check ticks of the controller monitor in one run.
MaxHealth == 2

\* Shutdown events published on the global bus in one run.
MaxBus == 1

\* Events published on the global bus in the runs of the bus alone.
MaxBusSent == 1025

\* Requests in one run in which callers may stop waiting for their reply:
\* of a camera actor, and of the controller monitor with its health checks.
MaxDropReq == 2

MaxDropCtlReq == 1

\* Requests that reach the two camera actors in one run of the web server's
\* select_cameras handler.
MaxWebCalls == 3

\* Requests that reach the two camera actors when the select_cameras handler
\* runs more than once (SpecReselect).
MaxReselectCalls == 4

\* direct reads of the status cell and requests in one run of SpecCell
MaxCellCalls == 3

\* events already on the global bus when the status query is published, in
\* the runs of SpecQuery
MaxQueryAt == 1

\* brightness operations the callers invoke in one run of SpecBright
MaxBrightReq == 3

\* operations the callers invoke in one run of SpecFair
MaxFairReq == 2

\* longest camera id string, in characters, given to the CameraType conversion
MaxIdLen == 5

Actors == {"esp", "usb", "ctl"}

\* the tasks that take lock guards: the three command loops and the
\* controller's health-check task
Tasks == Actors \cup {"hc"}

NoCall == 0

(***************************************************************************)
(* Results carried by a reply slot: OurResult<T>.                          *)
(***************************************************************************)
NoReply == [tag |-> "None"]

Ok(v) == [tag |-> "Ok", val |-> v]

\* OurError::App(format!(...)): the message kind and the id it names.
Err(msg, id) == [tag |-> "Err", msg |-> msg, id |-> id]

NoId == <<>>

(***************************************************************************)
(* Configuration of the ESPHome camera manager.                            *)
(***************************************************************************)
network_camera_hostnames == << <<"cam-a">>, <<"http://", "cam-b", ":", "80">> >>

RECURSIVE RemoveToken(_, _)
\* str::replace(tok, "") on a token string
RemoveToken(s, tok) ==
    IF s = <<>> THEN <<>>
    ELSE IF Head(s) = tok THEN RemoveToken(Tail(s), tok)
    ELSE <<Head(s)>> \o RemoveToken(Tail(s), tok)

RECURSIVE SplitFirst(_, _)
\* str::split(sep).next(): the part before the first separator
SplitFirst(s, sep) ==
    IF s = <<>> THEN <<>>
    ELSE IF Head(s) = sep THEN <<>>
    ELSE <<Head(s)>> \o SplitFirst(Tail(s), sep)

\* camera_name in probe_esphome_camera
EspCameraName(hostname) ==
    SplitFirst(RemoveToken(RemoveToken(hostname, "http://"), "https://"), ":")

\* camera_id in probe_esphome_camera: format!("esphome_{camera_name}")
EspCameraId(hostname) == <<"esphome_">> \o EspCameraName(hostname)

\* CameraInfo built by a successful probe
EspCameraInfo(hostname) ==
    [id |-> EspCameraId(hostname), hostname |-> hostname, online |-> TRUE]

UnknownId == <<"unknown">>

EspIdA == EspCameraId(network_camera_hostnames[1])
EspIdB == EspCameraId(network_camera_hostnames[2])

\* Arguments the callers try on the ESPHome handle.
EspSelectArgs == { <<>>, <<EspIdA>>, <<EspIdA, EspIdB>>,
                   <<EspIdA, UnknownId>>, <<UnknownId>> }

EspCaptureArgs == { EspIdA, UnknownId }

VARIABLES
    scope,              \* the actors this run exercises
    quota,              \* number of operations the callers invoke in this run
    calls,              \* every operation invoked so far, with its reply slot
    senders,            \* actor -> a handle (channel sender) still exists
    request_receiver,   \* actor -> queued request ids (the mpsc channel)
    pc,                 \* actor -> position of the command loop
    cur,                \* actor -> request being handled (NoCall if none)
    guards,             \* task -> lock guards it holds while it is suspended
    bus,                \* global broadcast channel: the Shutdown events sent
    busSent,            \* global broadcast channel: number of events sent
    busNext,            \* subscriber -> number of events it is past
    busGot,             \* subscriber -> what its recv() calls have returned
    espStatus,          \* CameraStatus cell of the ESPHome camera manager
    espHttp,            \* snapshot GETs issued by the ESPHome camera manager
    espProbe,           \* ESPHome: per configured hostname, how its probes went
    usbStatus,          \* UsbCameraStatus cell of the USB camera manager
    brightness_adjustments, \* USB: hardware_id -> software brightness offset
    usbDetected,        \* USB: detected_cameras not yet inserted by detect
    usbHw,              \* USB: camera devices opened (Camera::new)
    settings,           \* controller: the shared Settings
    ctlStatus,          \* ControllerStatus cell of the controller monitor
    ctlTmp,             \* controller: local value of the running handler
    hc,                 \* controller: the health-check task; failed_checks
                        \* records the checks that failed in a row since
                        \* the last successful one or the last hostname
                        \* change
    web,                \* web server: the running select_cameras handler
    user_config         \* persisted user configuration: selected cameras

espVars == <<espStatus, espHttp, espProbe>>

usbVars == <<usbStatus, brightness_adjustments, usbDetected, usbHw>>

ctlVars == <<settings, ctlStatus, ctlTmp, hc>>

busVars == <<bus, busSent, busNext, busGot>>

webVars == <<web, user_config>>

plumb == <<scope, quota, senders, request_receiver, busVars>>

vars == <<scope, quota, calls, senders, request_receiver, pc, cur, guards, busVars,
          espVars, usbVars, ctlVars, webVars>>

\* state owned by the actors' tasks (everything but the channel plumbing)
actorVars == <<espVars, usbVars, ctlVars>>

EspKeep == UNCHANGED <<plumb, webVars, usbVars, ctlVars>>

UsbKeep == UNCHANGED <<plumb, webVars, espVars, ctlVars>>

CtlKeep == UNCHANGED <<plumb, webVars, espVars, usbVars>>

(***************************************************************************)
(* Request bookkeeping.                                                    *)
(***************************************************************************)
CallIds == 1..Len(calls)

ShutdownPublished == \E k \in 1..Len(bus) : bus[k] = "Shutdown"

\* An invoked operation: the request variant, its argument, its reply slot.
\* late: invoked after Shutdown was published; gone: invoked after the actor
\*      stopped
\* via: "handle" (an actor handle method), "web" (a web endpoint in front of
\*      the handle), "direct" (a handle method that reads the status cell)
\* hw_failed: a hardware or transport call made by the handler of this
\*      request failed (history)
\* dropped: the caller dropped the receiver of the reply slot
\* send_err: the send on the reply slot returned Err (receiver gone)
\* st:  "queued" | "handling" | "done" | "lost" (dropped with the receiver)
\*      | "closed" (send on the command channel failed) | "refused" (the web
\*      endpoint answered without sending)
NewCall(a, op, arg, slot, via, st, reply) ==
    [actor |-> a, op |-> op, arg |-> arg, slot |-> slot, via |-> via,
     st |-> st, sends |-> 0, reply |-> reply, late |-> ShutdownPublished,
     gone |-> pc[a] = "stopped", hw_failed |-> FALSE, dropped |-> FALSE,
     send_err |-> FALSE]

Running(a) == pc[a] # "stopped"

CanInvoke(a) ==
    /\ a \in scope
    /\ Len(calls) < quota
    /\ senders[a]

\* request_sender.send(request) of the handle methods; the caller then awaits
\* the one-shot receiver (requests with a reply slot).  A send on a channel
\* whose receiver is gone fails and the method returns the error at once.
Push(a, op, arg, slot, via) ==
    IF Running(a)
    THEN /\ calls' = Append(calls,
                 NewCall(a, op, arg, slot, via, "queued", NoReply))
         /\ request_receiver' =
              [request_receiver EXCEPT ![a] = Append(@, Len(calls) + 1)]
    ELSE /\ calls' = Append(calls,
                 NewCall(a, op, arg, slot, via, "closed",
                         Err("channel closed", NoId)))
         /\ UNCHANGED request_receiver

Enqueue(a, op, arg, slot, via) ==
    /\ Push(a, op, arg, slot, via)
    /\ UNCHANGED <<scope, quota, senders, pc, cur, guards, busVars, actorVars,
                   webVars>>

\* CameraHandle::<op>, UsbCameraHandle::<op>, ControllerHandle::send_command
HandleSend(a, op, arg, slot) ==
    /\ CanInvoke(a)
    /\ Enqueue(a, op, arg, slot, "handle")

\* faulty variant: the request is finished without a send on its slot
RespondNever(c, result) == [c EXCEPT !.st = "done"]

\* respond_to.send(result): consumes the one-shot sender; the value reaches
\* the caller unless the receiver was dropped, in which case send returns Err
Respond(c, result) ==
    [c EXCEPT !.st = "done",
              !.sends = IF c.slot THEN @ + 1 ELSE @,
              !.reply = IF c.slot /\ ~c.dropped THEN result ELSE @,
              !.send_err = c.slot /\ c.dropped]

\* faulty variant: the error of a failed send ends the command loop
AfterSendPropagated(c) == IF c.slot /\ c.dropped THEN "stopped" ELSE "recv"

\* if respond_to.send(result).is_err() { error!(..) }: the failed send is
\* logged and the loop goes back to recv() as after a successful one
AfterSend(c) == "recv"

\* The command loop finishes the current request and goes back to recv();
\* failed: the last hardware or transport call of the handler failed.
FinishHw(a, result, failed) ==
    /\ calls' = IF cur[a] = NoCall THEN calls
                ELSE [calls EXCEPT ![cur[a]] =
                        [Respond(@, result) EXCEPT !.hw_failed = @ \/ failed]]
    /\ pc' = [pc EXCEPT ![a] = IF cur[a] = NoCall THEN "recv"
                                ELSE AfterSend(calls[cur[a]])]
    /\ cur' = [cur EXCEPT ![a] = NoCall]
    /\ guards' = [guards EXCEPT ![a] = {}]

Finish(a, result) == FinishHw(a, result, FALSE)

\* the match arm of the command loop for the request variant op
Handling(a, op) ==
    /\ a \in scope
    /\ pc[a] = "handle"
    /\ calls[cur[a]].op = op

\* Guards that are in scope at the await points of the ESPHome camera manager.
\* probing: detect_cameras takes the status write guard only after the loop of
\* probes; snapshot: capture_image reads the status inside a block that ends
\* before the GET.
EspAwaitGuards(label) ==
    CASE label = "probing" -> {}
      [] label = "snapshot" -> {}
      [] OTHER -> {}

\* USB camera manager: get_status()/get_status_mut() guards are temporaries
\* or block-scoped; query: nokhwa::query; camera: Camera::new and the capture.
UsbAwaitGuards(label) ==
    CASE label = "query" -> {}
      [] label = "camera" -> {}
      [] OTHER -> {}

\* faulty variant: the settings read guard stays bound while the request
\* built from the hostname is in flight
CtlAwaitGuardsSettingsHeld(label) ==
    CASE label \in {"post", "sensor1", "sensor2", "device_info"}
             -> {"settings.read"}
      [] OTHER -> {}

\* Controller monitor: the hostname is cloned out of the settings guard before
\* make_request, and make_request takes the status write guard after the
\* response arrived.
CtlAwaitGuards(label) ==
    CASE label \in {"post", "sensor1", "sensor2", "device_info"} -> {}
      [] OTHER -> {}

AwaitGuards(a, label) ==
    CASE a = "esp" -> EspAwaitGuards(label)
      [] a = "usb" -> UsbAwaitGuards(label)
      [] a = "ctl" -> CtlAwaitGuards(label)

\* RwLock: a write guard excludes every other guard, read guards are shared.
\* The controller's command loop and its health-check task share the locks.
\* "reader" is a caller of ControllerHandle::get_status.
Peers(t) ==
    CASE t = "ctl" -> {"hc"}
      [] t = "hc" -> {"ctl"}
      [] t = "reader" -> {"ctl", "hc"}
      [] OTHER -> {}

ReadGuard(lock) == IF lock = "status" THEN "status.read" ELSE "settings.read"

WriteGuard(lock) == IF lock = "status" THEN "status.write" ELSE "settings.write"

\* faulty variant: the cell is read without the read guard
CanReadUnlocked(t, lock) == TRUE

\* lock.read() / lock.write() return at once
CanRead(t, lock) == \A u \in Peers(t) : WriteGuard(lock) \notin guards[u]

CanWrite(t, lock) ==
    \A u \in Peers(t) : guards[u] \cap {ReadGuard(lock), WriteGuard(lock)} = {}

\* the handler moves to an await point inside the current request;
\* failed: the hardware or transport call it came from failed
GotoHw(a, label, failed) ==
    /\ pc' = [pc EXCEPT ![a] = label]
    /\ guards' = [guards EXCEPT ![a] = AwaitGuards(a, label)]
    /\ calls' = IF cur[a] = NoCall \/ ~failed THEN calls
                ELSE [calls EXCEPT ![cur[a]].hw_failed = TRUE]
    /\ UNCHANGED cur

Goto(a, label) == GotoHw(a, label, FALSE)

\* faulty variant: the newest queued request is taken first
RecvNewest(a) ==
    /\ a \in scope
    /\ pc[a] = "recv"
    /\ request_receiver[a] # <<>>
    /\ LET n == Len(request_receiver[a]) IN
       /\ cur' = [cur EXCEPT ![a] = request_receiver[a][n]]
       /\ request_receiver' = [request_receiver EXCEPT ![a] = SubSeq(@, 1, n - 1)]
       /\ calls' = [calls EXCEPT ![request_receiver[a][n]].st = "handling"]
    /\ pc' = [pc EXCEPT ![a] = "handle"]
    /\ UNCHANGED <<scope, quota, senders, guards, busVars, actorVars, webVars>>

\* faulty variant: the next request is taken while one is being handled
RecvEager(a) ==
    /\ a \in scope
    /\ pc[a] \in {"recv", "snapshot", "camera", "post", "sensor2"}
    /\ request_receiver[a] # <<>>
    /\ cur' = [cur EXCEPT ![a] = Head(request_receiver[a])]
    /\ request_receiver' = [request_receiver EXCEPT ![a] = Tail(@)]
    /\ calls' = [calls EXCEPT ![Head(request_receiver[a])].st = "handling"]
    /\ pc' = [pc EXCEPT ![a] = "handle"]
    /\ UNCHANGED <<scope, quota, senders, guards, busVars, actorVars, webVars>>

\* faulty variant: the loop takes requests only while none was taken before
RecvOnce(a) ==
    /\ a \in scope
    /\ pc[a] = "recv"
    /\ request_receiver[a] # <<>>
    /\ \A i \in DOMAIN calls : calls[i].actor = a => calls[i].st = "queued"
    /\ cur' = [cur EXCEPT ![a] = Head(request_receiver[a])]
    /\ request_receiver' = [request_receiver EXCEPT ![a] = Tail(@)]
    /\ calls' = [calls EXCEPT ![Head(request_receiver[a])].st = "handling"]
    /\ pc' = [pc EXCEPT ![a] = "handle"]
    /\ UNCHANGED <<scope, quota, senders, guards, busVars, actorVars, webVars>>

\* while let Some(request) = self.request_receiver.recv().await
Recv(a) ==
    /\ a \in scope
    /\ pc[a] = "recv"
    /\ request_receiver[a] # <<>>
    /\ cur' = [cur EXCEPT ![a] = Head(request_receiver[a])]
    /\ request_receiver' = [request_receiver EXCEPT ![a] = Tail(@)]
    /\ calls' = [calls EXCEPT ![Head(request_receiver[a])].st = "handling"]
    /\ pc' = [pc EXCEPT ![a] = "handle"]
    /\ UNCHANGED <<scope, quota, senders, guards, busVars, actorVars, webVars>>

\* A caller stops waiting: the future that awaits the reply is dropped, and
\* the receiver of the one-shot slot with it.  The actor can tell only at its
\* send whether the receiver is gone, so a caller that gave up while its
\* request was queued is represented by one that gives up as soon as the
\* request is taken from the channel.
CallerGivesUp ==
    /\ \E i \in CallIds :
         /\ calls[i].slot
         /\ calls[i].st = "handling"
         /\ ~calls[i].dropped
         /\ calls' = [calls EXCEPT ![i].dropped = TRUE]
    /\ UNCHANGED <<scope, quota, senders, request_receiver, pc, cur, guards,
                   busVars, actorVars, webVars>>

\* Every clone of the actor's handle is dropped: no sender is left.
DropHandles(a) ==
    /\ a \in scope
    /\ senders[a]
    /\ senders' = [senders EXCEPT ![a] = FALSE]
    /\ UNCHANGED <<scope, quota, calls, request_receiver, pc, cur, guards, busVars,
                   actorVars, webVars>>

\* faulty variant: the loop ends as soon as no sender is left
ExitUndrained(a) ==
    /\ a \in scope
    /\ pc[a] = "recv"
    /\ ~senders[a]
    /\ pc' = [pc EXCEPT ![a] = "stopped"]
    /\ UNCHANGED <<scope, quota, calls, senders, request_receiver, cur, guards,
                   busVars, actorVars, webVars>>

\* recv() returns None (no sender left, queue drained): the loop ends, Ok(()).
Exit(a) ==
    /\ a \in scope
    /\ pc[a] = "recv"
    /\ request_receiver[a] = <<>>
    /\ ~senders[a]
    /\ pc' = [pc EXCEPT ![a] = "stopped"]
    /\ UNCHANGED <<scope, quota, calls, senders, request_receiver, cur, guards,
                   busVars, actorVars, webVars>>

\* faulty variant: the requests left in the channel keep their senders
LoseCallsQueuedKept(a, cs) ==
    [i \in DOMAIN cs |->
        IF cs[i].actor = a /\ cs[i].st = "handling"
        THEN [cs[i] EXCEPT !.st = "lost"] ELSE cs[i]]

\* The receiver is dropped: the channel closes and every request still in it,
\* and the one being handled, is dropped together with its one-shot sender.
LoseCalls(a, cs) ==
    [i \in DOMAIN cs |->
        IF cs[i].actor = a /\ cs[i].st \in {"queued", "handling"}
        THEN [cs[i] EXCEPT !.st = "lost"] ELSE cs[i]]

\* The actor's task is dropped while handles still exist (the runtime shuts
\* down, or a handler panics).
Abort(a) ==
    /\ a \in scope
    /\ Running(a)
    /\ pc' = [pc EXCEPT ![a] = "stopped"]
    /\ cur' = [cur EXCEPT ![a] = NoCall]
    /\ request_receiver' = [request_receiver EXCEPT ![a] = <<>>]
    /\ calls' = LoseCalls(a, calls)
    /\ guards' = [guards EXCEPT ![a] = {}]
    /\ UNCHANGED <<scope, quota, senders, busVars, actorVars, webVars>>

\* tokio::sync::broadcast::channel(1024)
BusCapacity == 1024

\* The receivers of the channel: the one returned with the sender, which is
\* kept and never polled, and the one subscribed for the web server.
Subscribers == {"base", "server"}

\* last: position of the event the latest successful recv() returned;
\* count: number of events received; lagged: number of Lagged errors
NothingReceived == [last |-> 0, count |-> 0, lagged |-> 0]

\* global_tx.send(event) of a web handler: the event takes the next slot of
\* the ring, overwriting the oldest one; the sender never waits.
BusPublish ==
    /\ busSent < MaxBusSent
    /\ busSent' = busSent + 1
    /\ UNCHANGED <<scope, quota, calls, senders, request_receiver, pc, cur, guards,
                   bus, busNext, busGot, actorVars, webVars>>

\* Receiver::recv() with an event pending: Err(Lagged) when the event at the
\* subscriber's position was overwritten (the subscriber is moved to the
\* oldest retained event), otherwise the event at its position
BusRecvResult(next, got, sent) ==
    IF next < sent - BusCapacity
    THEN [next |-> sent - BusCapacity, got |-> [got EXCEPT !.lagged = @ + 1]]
    ELSE [next |-> next + 1,
          got |-> [got EXCEPT !.last = next + 1, !.count = @ + 1]]

\* a subscriber's event loop polls the channel
BusRecv(s) ==
    /\ busNext[s] < busSent
    /\ LET r == BusRecvResult(busNext[s], busGot[s], busSent) IN
       /\ busNext' = [busNext EXCEPT ![s] = r.next]
       /\ busGot' = [busGot EXCEPT ![s] = r.got]
    /\ UNCHANGED <<scope, quota, calls, senders, request_receiver, pc, cur, guards,
                   bus, busSent, actorVars, webVars>>

\* global_tx.send(GlobalMessage::Shutdown): no actor task of these sources
\* holds a subscription that it polls, the event only enters the channel.
PublishShutdown ==
    /\ Len(bus) < MaxBus
    /\ bus' = Append(bus, "Shutdown")
    /\ busSent' = busSent + 1
    /\ UNCHANGED <<busNext, busGot>>
    /\ UNCHANGED <<scope, quota, calls, senders, request_receiver, pc, cur, guards,
                   actorVars, webVars>>

(***************************************************************************)
(* ESPHome camera manager (camera_manager.rs).                             *)
(***************************************************************************)
\* CameraStatus::default()
EspStatusDefault ==
    [cameras |-> <<>>, selected_cameras |-> <<>>, streaming |-> FALSE]

\* status.cameras.clear(); insert(camera.id, camera) for each, in order:
\* a later camera with the same id replaces the earlier one.
CamerasMap(list) ==
    [id \in {list[i].id : i \in DOMAIN list} |->
        list[CHOOSE i \in DOMAIN list :
                /\ list[i].id = id
                /\ \A j \in DOMAIN list : list[j].id = id => j <= i]]

RECURSIVE ProbedCameras(_, _)
\* the Vec `cameras` of detect_cameras: one CameraInfo per hostname whose
\* probe succeeded, in configuration order
ProbedCameras(hosts, ok) ==
    IF hosts = <<>> THEN <<>>
    ELSE (IF Head(ok) THEN <<EspCameraInfo(Head(hosts))>> ELSE <<>>)
         \o ProbedCameras(Tail(hosts), Tail(ok))

\* first requested id that is not a key of the device map, NoId if none
FirstMissing(ids, cameras) ==
    IF \E i \in DOMAIN ids : ids[i] \notin DOMAIN cameras
    THEN ids[CHOOSE i \in DOMAIN ids :
                /\ ids[i] \notin DOMAIN cameras
                /\ \A j \in DOMAIN ids : ids[j] \notin DOMAIN cameras => i <= j]
    ELSE NoId

\* CameraHandle operations
EspHandleOp ==
    \/ HandleSend("esp", "DetectCameras", NoId, FALSE)
    \/ HandleSend("esp", "ListCameras", NoId, TRUE)
    \/ \E ids \in EspSelectArgs : HandleSend("esp", "SelectCameras", ids, TRUE)
    \/ HandleSend("esp", "StartStreaming", NoId, TRUE)
    \/ HandleSend("esp", "StopStreaming", NoId, TRUE)
    \/ \E id \in EspCaptureArgs : HandleSend("esp", "CaptureImage", id, TRUE)
    \/ HandleSend("esp", "GetStatus", NoId, TRUE)

\* probe_esphome_camera as seen from outside: per hostname, the outcome of
\* the latest probe ("none" before the first) and whether one ever succeeded
NotProbed == [last |-> "none", seen |-> FALSE]

ProbeSeen(p, ok) ==
    [last |-> IF ok THEN "ok" ELSE "failed", seen |-> p.seen \/ ok]

\* CameraRequest::DetectCameras: the probes are issued (HTTP in flight)
EspDetectProbe ==
    /\ Handling("esp", "DetectCameras")
    /\ Goto("esp", "probing")
    /\ UNCHANGED espVars
    /\ EspKeep

\* detect_cameras: probe results arrive, the device map is replaced
EspDetectCameras ==
    /\ pc["esp"] = "probing"
    /\ \E ok \in [1..Len(network_camera_hostnames) -> BOOLEAN] :
         LET cameras == ProbedCameras(network_camera_hostnames, ok) IN
         /\ espStatus' = [espStatus EXCEPT !.cameras = CamerasMap(cameras)]
         /\ espProbe' = [k \in DOMAIN espProbe |-> ProbeSeen(espProbe[k], ok[k])]
         /\ Finish("esp", Ok(cameras))
    /\ UNCHANGED espHttp
    /\ EspKeep

\* CameraRequest::ListCameras
EspListCameras ==
    /\ Handling("esp", "ListCameras")
    /\ Finish("esp", Ok({espStatus.cameras[k] : k \in DOMAIN espStatus.cameras}))
    /\ UNCHANGED espVars
    /\ EspKeep

\* select_cameras: result and new status cell
EspSelectResult(st, ids) ==
    IF FirstMissing(ids, st.cameras) # NoId
    THEN Err("not found", FirstMissing(ids, st.cameras))
    ELSE Ok("unit")

\* faulty variant: the known ids of a refused request are selected anyway
EspSelectStatusPartial(st, ids) ==
    [st EXCEPT !.selected_cameras =
        SelectSeq(ids, LAMBDA id : id \in DOMAIN st.cameras)]

EspSelectStatus(st, ids) ==
    IF FirstMissing(ids, st.cameras) # NoId
    THEN st
    ELSE [st EXCEPT !.selected_cameras = ids]

\* CameraRequest::SelectCameras
EspSelectCameras ==
    /\ Handling("esp", "SelectCameras")
    /\ espStatus' = EspSelectStatus(espStatus, calls[cur["esp"]].arg)
    /\ Finish("esp", EspSelectResult(espStatus, calls[cur["esp"]].arg))
    /\ UNCHANGED <<espHttp, espProbe>>
    /\ EspKeep

\* start_streaming / stop_streaming
EspStartStatus(st) == [st EXCEPT !.streaming = TRUE]

EspStopStatus(st) == [st EXCEPT !.streaming = FALSE]

\* CameraRequest::StartStreaming
EspStartStreaming ==
    /\ Handling("esp", "StartStreaming")
    /\ espStatus' = EspStartStatus(espStatus)
    /\ Finish("esp", Ok("unit"))
    /\ UNCHANGED <<espHttp, espProbe>>
    /\ EspKeep

\* CameraRequest::StopStreaming
EspStopStreaming ==
    /\ Handling("esp", "StopStreaming")
    /\ espStatus' = EspStopStatus(espStatus)
    /\ Finish("esp", Ok("unit"))
    /\ UNCHANGED <<espHttp, espProbe>>
    /\ EspKeep

\* capture_image, the block that reads the status cell:
\* "pass" when the snapshot URL is obtained, otherwise the error returned
EspCaptureCheck(st, id) ==
    IF id \notin DOMAIN st.cameras THEN Err("not found", id)
    ELSE IF ~st.cameras[id].online THEN Err("offline", id)
    ELSE Ok("pass")

\* CameraRequest::CaptureImage, up to the point where the GET is sent
EspCaptureImage ==
    /\ Handling("esp", "CaptureImage")
    /\ LET r == EspCaptureCheck(espStatus, calls[cur["esp"]].arg) IN
       IF r.tag = "Err"
       THEN /\ Finish("esp", r)
            /\ UNCHANGED espVars
       ELSE /\ Goto("esp", "snapshot")
            /\ espHttp' = espHttp + 1
            /\ UNCHANGED <<espStatus, espProbe>>
    /\ EspKeep

\* capture_image, after client.get(snapshot_url).send().await
EspSnapshotOutcomes ==
    { Ok("bytes"), Err("request failed", NoId), Err("bad status", NoId),
      Err("read failed", NoId) }

EspCaptureReply ==
    /\ pc["esp"] = "snapshot"
    /\ \E r \in EspSnapshotOutcomes : FinishHw("esp", r, r.tag = "Err")
    /\ UNCHANGED espVars
    /\ EspKeep

\* CameraRequest::GetStatus
EspGetStatus ==
    /\ Handling("esp", "GetStatus")
    /\ Finish("esp", Ok(espStatus))
    /\ UNCHANGED espVars
    /\ EspKeep

EspStep ==
    \/ EspDetectProbe \/ EspDetectCameras \/ EspListCameras
    \/ EspSelectCameras \/ EspStartStreaming \/ EspStopStreaming
    \/ EspCaptureImage \/ EspCaptureReply \/ EspGetStatus

(***************************************************************************)
(* USB camera manager (usb_camera_controller.rs).                          *)
(***************************************************************************)
None == "None"

\* str::to_uppercase / to_lowercase on the tokens that occur
Upper(tok) ==
    CASE tok = "046d" -> "046D"
      [] tok = "c1a0" -> "C1A0"
      [] OTHER -> tok

Lower(tok) ==
    CASE tok = "VID_" -> "vid_"
      [] tok = "PID_" -> "pid_"
      [] tok = "HD" -> "hd"
      [] tok = "Webcam" -> "webcam"
      [] tok = "FaceTime" -> "facetime"
      [] tok = "Camera" -> "camera"
      [] OTHER -> tok

\* str::replace(' ', "_").to_lowercase()
Slug(s) == [i \in DOMAIN s |-> IF s[i] = " " THEN "_" ELSE Lower(s[i])]

\* regex (?i)<key>[_:]([0-9a-f]{4}) on a description: the capture, uppercased
ParseAfter(description, keys) ==
    IF \E i \in 1..(Len(description) - 1) : Lower(description[i]) \in keys
    THEN Upper(description[1 + CHOOSE i \in 1..(Len(description) - 1) :
                    /\ Lower(description[i]) \in keys
                    /\ \A j \in 1..(Len(description) - 1) :
                          Lower(description[j]) \in keys => i <= j])
    ELSE None

parse_vendor_id_from_description(description) ==
    ParseAfter(description, {"vid_", "vid:"})

parse_product_id_from_description(description) ==
    ParseAfter(description, {"pid_", "pid:"})

parse_serial_from_description(description) ==
    ParseAfter(description, {"ser_", "ser:", "snr_", "snr:", "se_", "se:",
                             "sn_", "sn:"})

\* faulty variant: the parts do not begin with "usb"
generate_hardware_id_bare(index, camera_info) ==
    LET vid == parse_vendor_id_from_description(camera_info.description)
        pid == parse_product_id_from_description(camera_info.description)
    IN  IF vid # None /\ pid # None
        THEN <<vid, ":", pid, ":">> \o Slug(camera_info.human_name)
        ELSE Slug(camera_info.description) \o <<":", ToString(index)>>

\* generate_hardware_id: parts.join(":")
generate_hardware_id(index, camera_info) ==
    LET vid == parse_vendor_id_from_description(camera_info.description)
        pid == parse_product_id_from_description(camera_info.description)
        serial == parse_serial_from_description(camera_info.description)
    IN  IF vid # None /\ pid # None
        THEN <<"usb", ":", vid, ":", pid, ":">> \o
             (IF serial # None THEN <<serial>> ELSE Slug(camera_info.human_name))
        ELSE <<"usb", ":">> \o Slug(camera_info.description) \o
             <<":", ToString(index)>>

\* get_camera_formats: the fixed table (width, height, fps, format)
DefaultFormats ==
    << <<320, 240, 30, "MJPEG">>, <<640, 480, 30, "MJPEG">>,
       <<1280, 720, 30, "MJPEG">>, <<1920, 1080, 30, "MJPEG">> >>

\* create_camera_info
UsbCameraInfo(index, camera_info) ==
    [index |-> index,
     name |-> camera_info.human_name,
     vendor_id |-> parse_vendor_id_from_description(camera_info.description),
     product_id |-> parse_product_id_from_description(camera_info.description),
     serial_number |-> parse_serial_from_description(camera_info.description),
     hardware_id |-> generate_hardware_id(index, camera_info),
     connected |-> TRUE,
     supported_formats |-> DefaultFormats,
     current_format |-> None]

\* The cameras that nokhwa::query may report.
DevA == [human_name |-> <<"HD", " ", "Webcam">>,
         description |-> <<"VID_", "046d", " ", "PID_", "c1a0">>]

DevB == [human_name |-> <<"FaceTime">>,
         description |-> <<"FaceTime", " ", "Camera">>]

\* what nokhwa::query reports: no camera, one, two different ones, or two
\* cameras of the same make that report no serial number
UsbQueryResults == { <<>>, <<DevA>>, <<DevA, DevB>>, <<DevB>>, <<DevA, DevA>> }

UsbIdA == generate_hardware_id(0, DevA)

UnknownUsbId == <<"usb", ":", "ghost">>

\* Arguments the callers try on the USB handle.
UsbSelectArgs == { <<>>, <<UsbIdA>>, <<UsbIdA, UnknownUsbId>>, <<UnknownUsbId>> }

UsbIdArgs == { UsbIdA, UnknownUsbId }

BrightnessValues == { -1, 0, 255, 256 }

UsbBrightnessArgs ==
    { [id |-> UsbIdA, brightness |-> b] : b \in BrightnessValues }
    \cup { [id |-> UnknownUsbId, brightness |-> 50] }

WebBrightnessArgs ==
    { [id |-> UsbIdA, brightness |-> b] : b \in BrightnessValues }
    \cup { [id |-> EspIdA, brightness |-> 50] }

UsbFormatArgs == { [id |-> id, format |-> <<640, 480, 30, "MJPEG">>] : id \in UsbIdArgs }

\* UsbCameraStatus::default()
UsbStatusDefault ==
    [cameras |-> <<>>, selected_cameras |-> <<>>, streaming |-> FALSE,
     last_detection |-> None]

NotDetecting == [cameras |-> <<>>, done |-> 0]

\* HashMap::insert / HashMap::remove
MapPut(m, k, v) == [x \in DOMAIN m \cup {k} |-> IF x = k THEN v ELSE m[x]]

MapDel(m, k) == [x \in DOMAIN m \ {k} |-> m[x]]

StartsWith(s, prefix) ==
    /\ Len(s) >= Len(prefix)
    /\ SubSeq(s, 1, Len(prefix)) = prefix

\* UsbCameraHandle operations
UsbHandleOp ==
    \/ HandleSend("usb", "DetectCameras", NoId, TRUE)
    \/ HandleSend("usb", "ListCameras", NoId, TRUE)
    \/ \E ids \in UsbSelectArgs : HandleSend("usb", "SelectCameras", ids, TRUE)
    \/ HandleSend("usb", "StartStreaming", NoId, TRUE)
    \/ HandleSend("usb", "StopStreaming", NoId, TRUE)
    \/ \E id \in UsbIdArgs : HandleSend("usb", "CaptureImage", id, TRUE)
    \/ \E id \in UsbIdArgs : HandleSend("usb", "CaptureStreamingFrame", id, TRUE)
    \/ HandleSend("usb", "GetStatus", NoId, TRUE)
    \/ \E x \in UsbBrightnessArgs : HandleSend("usb", "SetBrightness", x, TRUE)
    \/ \E id \in UsbIdArgs : HandleSend("usb", "GetBrightness", id, TRUE)
    \/ \E x \in UsbFormatArgs : HandleSend("usb", "SetCameraFormat", x, TRUE)

\* server.rs set_camera_brightness: the range check, then the routing by
\* id prefix, then UsbCameraHandle::set_brightness
WebBrightnessCheck(x) ==
    IF x.brightness < 0 \/ x.brightness > 255 THEN Err("brightness range", NoId)
    ELSE IF ~StartsWith(x.id, <<"usb", ":">>) THEN Err("no brightness control", NoId)
    ELSE Ok("pass")

WebSetBrightness ==
    /\ CanInvoke("usb")
    /\ \E x \in WebBrightnessArgs :
         IF WebBrightnessCheck(x).tag = "Err"
         THEN /\ calls' = Append(calls,
                    NewCall("usb", "SetBrightness", x, FALSE, "web", "refused",
                            WebBrightnessCheck(x)))
              /\ UNCHANGED <<scope, quota, senders, request_receiver, pc, cur, guards,
                             busVars, actorVars, webVars>>
         ELSE Enqueue("usb", "SetBrightness", x, TRUE, "web")

\* UsbCameraRequest::DetectCameras
UsbDetectStart ==
    /\ Handling("usb", "DetectCameras")
    /\ Goto("usb", "query")
    /\ UNCHANGED usbVars
    /\ UsbKeep

\* detect_cameras_internal: nokhwa::query fails, or reports some cameras
UsbDetectQuery ==
    /\ "usb" \in scope
    /\ pc["usb"] = "query"
    /\ \/ /\ FinishHw("usb", Err("query failed", NoId), TRUE)
          /\ UNCHANGED usbVars
       \/ \E devs \in UsbQueryResults :
          /\ usbDetected' =
               [cameras |-> [i \in DOMAIN devs |-> UsbCameraInfo(i - 1, devs[i])],
                done |-> 0]
          /\ Goto("usb", "detect")
          /\ UNCHANGED <<usbStatus, brightness_adjustments, usbHw>>
    /\ UsbKeep

\* detect_cameras_internal: one camera is inserted under the status lock
UsbDetectInsert ==
    /\ pc["usb"] = "detect"
    /\ usbDetected.done < Len(usbDetected.cameras)
    /\ LET info == usbDetected.cameras[usbDetected.done + 1] IN
       usbStatus' = [usbStatus EXCEPT
                        !.cameras = MapPut(@, info.hardware_id, info)]
    /\ usbDetected' = [usbDetected EXCEPT !.done = @ + 1]
    /\ UNCHANGED <<calls, pc, cur, guards, brightness_adjustments, usbHw>>
    /\ UsbKeep

\* faulty variant: vanished cameras are never removed
UsbStaleKept == {}

\* keys of the status map that the running detect did not see
UsbStale ==
    DOMAIN usbStatus.cameras \
    { usbDetected.cameras[i].hardware_id : i \in DOMAIN usbDetected.cameras }

\* detect_cameras_internal: one vanished camera is removed under the lock
UsbDetectRemove ==
    /\ pc["usb"] = "detect"
    /\ usbDetected.done = Len(usbDetected.cameras)
    /\ \E id \in UsbStale :
         usbStatus' = [usbStatus EXCEPT !.cameras = MapDel(@, id)]
    /\ UNCHANGED <<calls, pc, cur, guards, brightness_adjustments, usbDetected, usbHw>>
    /\ UsbKeep

\* faulty variant: the cycle ends with removals still outstanding
UsbDetectDoneEarly ==
    /\ pc["usb"] = "detect"
    /\ usbDetected.done = Len(usbDetected.cameras)
    /\ usbStatus' = [usbStatus EXCEPT !.last_detection = "Some"]
    /\ usbDetected' = NotDetecting
    /\ Finish("usb", Ok(usbDetected.cameras))
    /\ UNCHANGED <<brightness_adjustments, usbHw>>
    /\ UsbKeep

\* detect_cameras_internal: last_detection is set, the list is returned
UsbDetectDone ==
    /\ pc["usb"] = "detect"
    /\ usbDetected.done = Len(usbDetected.cameras)
    /\ UsbStale = {}
    /\ usbStatus' = [usbStatus EXCEPT !.last_detection = "Some"]
    /\ usbDetected' = NotDetecting
    /\ Finish("usb", Ok(usbDetected.cameras))
    /\ UNCHANGED <<brightness_adjustments, usbHw>>
    /\ UsbKeep

\* list_cameras_internal
UsbListCameras ==
    /\ Handling("usb", "ListCameras")
    /\ Finish("usb", Ok({usbStatus.cameras[k] : k \in DOMAIN usbStatus.cameras}))
    /\ UNCHANGED usbVars
    /\ UsbKeep

\* select_cameras_internal: result and new status cell
UsbSelectResult(st, ids) ==
    IF FirstMissing(ids, st.cameras) # NoId
    THEN Err("not found", FirstMissing(ids, st.cameras))
    ELSE Ok("unit")

\* faulty variant: the selection is written before the ids are validated
UsbSelectStatusUnchecked(st, ids) == [st EXCEPT !.selected_cameras = ids]

UsbSelectStatus(st, ids) ==
    IF FirstMissing(ids, st.cameras) # NoId
    THEN st
    ELSE [st EXCEPT !.selected_cameras = ids]

UsbSelectCameras ==
    /\ Handling("usb", "SelectCameras")
    /\ usbStatus' = UsbSelectStatus(usbStatus, calls[cur["usb"]].arg)
    /\ Finish("usb", UsbSelectResult(usbStatus, calls[cur["usb"]].arg))
    /\ UNCHANGED <<brightness_adjustments, usbDetected, usbHw>>
    /\ UsbKeep

\* start_streaming_internal / stop_streaming_internal
\* faulty variant: streaming is not enabled while nothing is selected
UsbStartStatusNeedsSelection(st) ==
    IF st.selected_cameras = <<>> THEN st ELSE [st EXCEPT !.streaming = TRUE]

UsbStartStatus(st) == [st EXCEPT !.streaming = TRUE]

UsbStopStatus(st) == [st EXCEPT !.streaming = FALSE]

UsbStartStreaming ==
    /\ Handling("usb", "StartStreaming")
    /\ usbStatus' = UsbStartStatus(usbStatus)
    /\ Finish("usb", Ok("unit"))
    /\ UNCHANGED <<brightness_adjustments, usbDetected, usbHw>>
    /\ UsbKeep

UsbStopStreaming ==
    /\ Handling("usb", "StopStreaming")
    /\ usbStatus' = UsbStopStatus(usbStatus)
    /\ Finish("usb", Ok("unit"))
    /\ UNCHANGED <<brightness_adjustments, usbDetected, usbHw>>
    /\ UsbKeep

\* faulty variant: an unknown id resolves to a placeholder camera
get_camera_info_lenient(st, hardware_id) ==
    IF \E k \in DOMAIN st.cameras : st.cameras[k].hardware_id = hardware_id
    THEN Ok(st.cameras[CHOOSE k \in DOMAIN st.cameras :
                          st.cameras[k].hardware_id = hardware_id])
    ELSE Ok([hardware_id |-> hardware_id, index |-> 0])

\* get_camera_info: the camera whose hardware_id is the given one
get_camera_info(st, hardware_id) ==
    IF \E k \in DOMAIN st.cameras : st.cameras[k].hardware_id = hardware_id
    THEN Ok(st.cameras[CHOOSE k \in DOMAIN st.cameras :
                          st.cameras[k].hardware_id = hardware_id])
    ELSE Err("not found", hardware_id)

\* capture_image_internal / capture_streaming_frame_internal, up to
\* create_camera: the device is opened only for a known camera
UsbCapture(op) ==
    /\ Handling("usb", op)
    /\ LET r == get_camera_info(usbStatus, calls[cur["usb"]].arg) IN
       IF r.tag = "Err"
       THEN /\ Finish("usb", r)
            /\ UNCHANGED usbVars
       ELSE /\ Goto("usb", "camera")
            /\ usbHw' = usbHw + 1
            /\ UNCHANGED <<usbStatus, brightness_adjustments, usbDetected>>
    /\ UsbKeep

UsbCaptureImage == UsbCapture("CaptureImage")

UsbCaptureStreamingFrame == UsbCapture("CaptureStreamingFrame")

\* what Camera::new, open_stream, frame, decode and the JPEG encoder yield
UsbCaptureOutcomes ==
    { Ok("jpeg"), Err("create camera failed", NoId), Err("open stream failed", NoId),
      Err("capture frame failed", NoId), Err("decode failed", NoId),
      Err("encode failed", NoId) }

UsbCaptureReply ==
    /\ pc["usb"] = "camera"
    /\ \E r \in UsbCaptureOutcomes : FinishHw("usb", r, r.tag = "Err")
    /\ UNCHANGED usbVars
    /\ UsbKeep

\* get_status_internal
UsbGetStatus ==
    /\ Handling("usb", "GetStatus")
    /\ Finish("usb", Ok(usbStatus))
    /\ UNCHANGED usbVars
    /\ UsbKeep

\* set_brightness_internal: result and new brightness_adjustments
SetBrightnessResult(st, adj, x) ==
    IF get_camera_info(st, x.id).tag = "Err" THEN get_camera_info(st, x.id)
    ELSE Ok("unit")

\* faulty variant: the offset is not doubled
SetBrightnessAdjustmentsPlain(st, adj, x) ==
    IF get_camera_info(st, x.id).tag = "Err" THEN adj
    ELSE MapPut(adj, x.id, x.brightness - 50)

\* set_brightness_internal: the offset stored for the camera. (b - 50) * 2
\* and offset / 2 + 50 are exact in f32 for the values used here, so the
\* floats are integers.
SetBrightnessAdjustments(st, adj, x) ==
    IF get_camera_info(st, x.id).tag = "Err" THEN adj
    ELSE MapPut(adj, x.id, (x.brightness - 50) * 2)

UsbSetBrightness ==
    /\ Handling("usb", "SetBrightness")
    /\ brightness_adjustments' =
         SetBrightnessAdjustments(usbStatus, brightness_adjustments,
                                  calls[cur["usb"]].arg)
    /\ Finish("usb", SetBrightnessResult(usbStatus, brightness_adjustments,
                                         calls[cur["usb"]].arg))
    /\ UNCHANGED <<usbStatus, usbDetected, usbHw>>
    /\ UsbKeep

\* get_brightness_internal
GetBrightnessResult(st, adj, id) ==
    IF get_camera_info(st, id).tag = "Err" THEN get_camera_info(st, id)
    ELSE Ok(((IF id \in DOMAIN adj THEN adj[id] ELSE 0) \div 2) + 50)

UsbGetBrightness ==
    /\ Handling("usb", "GetBrightness")
    /\ Finish("usb", GetBrightnessResult(usbStatus, brightness_adjustments,
                                         calls[cur["usb"]].arg))
    /\ UNCHANGED usbVars
    /\ UsbKeep

\* set_camera_format_internal
SetFormatStatus(st, x) ==
    IF x.id \in DOMAIN st.cameras
    THEN [st EXCEPT !.cameras[x.id].current_format = x.format]
    ELSE st

UsbSetCameraFormat ==
    /\ Handling("usb", "SetCameraFormat")
    /\ usbStatus' = SetFormatStatus(usbStatus, calls[cur["usb"]].arg)
    /\ Finish("usb", Ok("unit"))
    /\ UNCHANGED <<brightness_adjustments, usbDetected, usbHw>>
    /\ UsbKeep

UsbStep ==
    \/ UsbDetectStart \/ UsbDetectQuery \/ UsbDetectInsert \/ UsbDetectRemove
    \/ UsbDetectDone \/ UsbListCameras \/ UsbSelectCameras
    \/ UsbStartStreaming \/ UsbStopStreaming
    \/ UsbCaptureImage \/ UsbCaptureStreamingFrame \/ UsbCaptureReply
    \/ UsbGetStatus \/ UsbSetBrightness \/ UsbGetBrightness
    \/ UsbSetCameraFormat

(***************************************************************************)
(* Controller monitor (controller_monitor.rs).                             *)
(***************************************************************************)
\* ControllerResponse
Resp(tag, val) == [tag |-> tag, val |-> val]

\* settings.esphome_hostname at construction, and the other hostname a
\* configuration update may carry
HostA == "ctl-a"

HostB == "ctl-b"

\* ControllerMonitor::new: the status cell
CtlStatusInit(hostname) ==
    [online |-> FALSE, hostname |-> hostname, last_seen |-> None,
     response_time_ms |-> None, error_count |-> 0, uptime_seconds |-> None]

\* outcome: the result of the GET while its status write is under way
HcOff ==
    [pc |-> "off", hostname |-> None, count |-> 0, failed_checks |-> 0,
     outcome |-> None]

\* no select_cameras request is being served by the web server
WebIdle == [pc |-> "idle"]

PostOps == {"NextCase", "TriggerVibration", "SetServoPosition"}

\* ControllerHandle::send_command / update_config
CtlHandleOp ==
    \/ \E op \in {"NextCase", "TriggerVibration", "GetStatus", "GetSensors",
                  "GetHardwareStatus"} : HandleSend("ctl", op, NoId, TRUE)
    \/ HandleSend("ctl", "SetServoPosition", <<"feeder", 90>>, TRUE)
    \/ \E h \in {HostA, HostB} : HandleSend("ctl", "UpdateConfig", h, TRUE)

\* ControllerHandle::get_status: reads the shared status cell, no request
CtlHandleGetStatus ==
    /\ CanInvoke("ctl")
    /\ CanRead("reader", "status")
    /\ calls' = Append(calls,
            NewCall("ctl", "get_status", NoId, FALSE, "direct", "done",
                    Ok(ctlStatus)))
    /\ UNCHANGED <<scope, quota, senders, request_receiver, pc, cur, guards, busVars,
                   actorVars, webVars>>

\* ControllerMonitor::run up to the loop: the health-check task is spawned
CtlStart ==
    /\ "ctl" \in scope
    /\ pc["ctl"] = "start"
    /\ CanRead("ctl", "settings")
    /\ pc' = [pc EXCEPT !["ctl"] = "recv"]
    /\ hc' = [hc EXCEPT !.pc = "tick"]
    /\ UNCHANGED <<calls, cur, guards, settings, ctlStatus, ctlTmp>>
    /\ CtlKeep

\* a bool kept in the handler's local value
Flag(b) == IF b THEN "true" ELSE "false"

\* handle_request: request.response_sender.send(response)
CtlFinishHw(response, failed) ==
    /\ FinishHw("ctl", response, failed)
    /\ ctlTmp' = None

CtlFinish(response) == CtlFinishHw(response, FALSE)

\* make_request: the status write after a successful response
MakeRequestStatus(st, success) ==
    IF success
    THEN [st EXCEPT !.response_time_ms = "Some", !.last_seen = "Some"]
    ELSE st

\* trigger_next_case / trigger_vibration / set_servo_position: the POST is sent
CtlPostSend ==
    /\ \E op \in PostOps : Handling("ctl", op)
    /\ CanRead("ctl", "settings")
    /\ ctlTmp' = settings.esphome_hostname
    /\ Goto("ctl", "post")
    /\ UNCHANGED <<settings, ctlStatus, hc>>
    /\ CtlKeep

\* ... and answered (or not)
CtlPostReply ==
    /\ pc["ctl"] = "post"
    /\ \E success \in BOOLEAN :
         /\ success => CanWrite("ctl", "status")
         /\ ctlStatus' = MakeRequestStatus(ctlStatus, success)
         /\ CtlFinishHw(Resp(IF success THEN "Success" ELSE "Error",
                             calls[cur["ctl"]].op), ~success)
    /\ UNCHANGED <<settings, hc>>
    /\ CtlKeep

\* get_machine_status: the first is_online() decides the status string
CtlGetStatusFirst ==
    /\ Handling("ctl", "GetStatus")
    /\ CanRead("ctl", "status")
    /\ ctlTmp' = Flag(ctlStatus.online)
    /\ Goto("ctl", "status")
    /\ UNCHANGED <<settings, ctlStatus, hc>>
    /\ CtlKeep

\* MachineStatus built by get_machine_status
MachineStatus(first_online, second_online) ==
    [status |-> IF first_online THEN "Ready" ELSE "Offline",
     ready |-> second_online, active_jobs |-> 0]

\* get_machine_status: the second is_online() decides ready
CtlGetStatusSecond ==
    /\ pc["ctl"] = "status"
    /\ CanRead("ctl", "status")
    /\ CtlFinish(Resp("StatusData", MachineStatus(ctlTmp = "true", ctlStatus.online)))
    /\ UNCHANGED <<settings, ctlStatus, hc>>
    /\ CtlKeep

\* get_binary_sensor: "ON" is true, "OFF" is false, a failed request is false
SensorOutcomes == {"ON", "OFF", "failed"}

\* get_sensor_readings: the first GET is sent
CtlSensorsSend ==
    /\ Handling("ctl", "GetSensors")
    /\ CanRead("ctl", "settings")
    /\ Goto("ctl", "sensor1")
    /\ UNCHANGED ctlVars
    /\ CtlKeep

\* get_sensor_readings: case_ready_to_feed answered, second GET sent
CtlSensorFirst ==
    /\ pc["ctl"] = "sensor1"
    /\ CanRead("ctl", "settings")
    /\ \E r \in SensorOutcomes :
         /\ r # "failed" => CanWrite("ctl", "status")
         /\ ctlStatus' = MakeRequestStatus(ctlStatus, r # "failed")
         /\ ctlTmp' = Flag(r = "ON")
         /\ GotoHw("ctl", "sensor2", r = "failed")
    /\ UNCHANGED <<settings, hc>>
    /\ CtlKeep

\* get_sensor_readings: case_in_camera_view answered
CtlSensorSecond ==
    /\ pc["ctl"] = "sensor2"
    /\ \E r \in SensorOutcomes :
         /\ r # "failed" => CanWrite("ctl", "status")
         /\ ctlStatus' = MakeRequestStatus(ctlStatus, r # "failed")
         /\ CtlFinishHw(Resp("SensorData",
                             [case_ready |-> ctlTmp = "true",
                              case_in_view |-> (r = "ON")]), r = "failed")
    /\ UNCHANGED <<settings, hc>>
    /\ CtlKeep

\* get_hardware_status: is_online() picks the branch
CtlHardwareStatus ==
    /\ Handling("ctl", "GetHardwareStatus")
    /\ CanRead("ctl", "status")
    /\ CanRead("ctl", "settings")
    /\ IF ctlStatus.online
       THEN /\ ctlTmp' = settings.esphome_hostname
            /\ Goto("ctl", "device_info")
       ELSE CtlFinish(Resp("HardwareData",
                           [controller |-> "Disconnected",
                            esphome_hostname |-> settings.esphome_hostname]))
    /\ UNCHANGED <<settings, ctlStatus, hc>>
    /\ CtlKeep

\* get_hardware_status: get_device_info answered (or not)
CtlDeviceInfo ==
    /\ pc["ctl"] = "device_info"
    /\ \E success \in BOOLEAN :
         /\ success => CanWrite("ctl", "status")
         /\ ctlStatus' = MakeRequestStatus(ctlStatus, success)
         /\ CtlFinishHw(Resp("HardwareData",
                [controller |-> "Connected", esphome_hostname |-> ctlTmp,
                 info |-> IF success THEN "device_info" ELSE "status"]),
                ~success)
    /\ UNCHANGED <<settings, hc>>
    /\ CtlKeep

\* update_config: the settings are replaced
CtlUpdateSettings ==
    /\ Handling("ctl", "UpdateConfig")
    /\ CanWrite("ctl", "settings")
    /\ ctlTmp' = settings.esphome_hostname
    /\ settings' = [settings EXCEPT !.esphome_hostname = calls[cur["ctl"]].arg]
    /\ Goto("ctl", "reset")
    /\ UNCHANGED <<ctlStatus, hc>>
    /\ CtlKeep

\* faulty variant: the health fields are reset whether or not the hostname
\* changed
UpdateConfigStatusAlways(st, old_hostname, new_hostname) ==
    [st EXCEPT !.hostname = new_hostname, !.online = FALSE,
               !.last_seen = None, !.response_time_ms = None,
               !.error_count = 0]

\* update_config: the status write when the hostname changed
UpdateConfigStatus(st, old_hostname, new_hostname) ==
    IF old_hostname # new_hostname
    THEN [st EXCEPT !.hostname = new_hostname, !.online = FALSE,
                    !.last_seen = None, !.response_time_ms = None,
                    !.error_count = 0]
    ELSE st

CtlUpdateStatus ==
    /\ pc["ctl"] = "reset"
    /\ ctlTmp # settings.esphome_hostname => CanWrite("ctl", "status")
    /\ ctlStatus' = UpdateConfigStatus(ctlStatus, ctlTmp, settings.esphome_hostname)
    /\ hc' = IF ctlTmp # settings.esphome_hostname
             THEN [hc EXCEPT !.failed_checks = 0]
             ELSE hc
    /\ CtlFinish(Resp("ConfigUpdated", NoId))
    /\ UNCHANGED settings
    /\ CtlKeep

CtlStep ==
    \/ CtlStart \/ CtlPostSend \/ CtlPostReply
    \/ CtlGetStatusFirst \/ CtlGetStatusSecond
    \/ CtlSensorsSend \/ CtlSensorFirst \/ CtlSensorSecond
    \/ CtlHardwareStatus \/ CtlDeviceInfo
    \/ CtlUpdateSettings \/ CtlUpdateStatus

\* faulty variant: the status write guard is taken before the probe is sent
HcAwaitGuardsStatusHeld == {"status.write"}

\* Guards in scope while the health-check GET is in flight: the settings read
\* guard of the task's loop is dropped at the end of its block, and
\* perform_health_check takes status.write() only in the arms of the match
\* on the response.
HcAwaitGuards == {}

\* the spawned health-check task: interval.tick(), hostname read from settings
HcTick ==
    /\ hc.pc = "tick"
    /\ hc.count < MaxHealth
    /\ CanRead("hc", "settings")
    /\ hc' = [hc EXCEPT !.pc = "probe",
                         !.hostname = settings.esphome_hostname,
                         !.count = @ + 1]
    /\ guards' = [guards EXCEPT !["hc"] = HcAwaitGuards]
    /\ UNCHANGED <<calls, pc, cur, settings, ctlStatus, ctlTmp>>
    /\ CtlKeep

\* perform_health_check: the outcomes of the GET
HealthOutcomes == {"success", "bad status", "transport error"}

\* faulty variant: a response with a non-success status is not counted as a
\* failed check
HealthCheckStatusTransportOnly(st, outcome) ==
    IF outcome = "transport error"
    THEN [st EXCEPT !.online = FALSE, !.error_count = @ + 1,
                    !.response_time_ms = None]
    ELSE [st EXCEPT !.online = (outcome = "success"), !.last_seen = "Some",
                    !.response_time_ms = "Some",
                    !.error_count = IF outcome = "success" THEN 0 ELSE @]

\* faulty variant: any response, whatever its status, marks the controller
\* online
HealthCheckStatusAnyResponse(st, outcome) ==
    IF outcome = "transport error"
    THEN [st EXCEPT !.online = FALSE, !.error_count = @ + 1,
                    !.response_time_ms = None]
    ELSE [st EXCEPT !.online = TRUE, !.last_seen = "Some",
                    !.response_time_ms = "Some",
                    !.error_count = IF outcome = "success" THEN 0 ELSE @ + 1]

\* perform_health_check: the status write for each outcome of the GET
HealthCheckStatus(st, outcome) ==
    IF outcome = "transport error"
    THEN [st EXCEPT !.online = FALSE, !.error_count = @ + 1,
                    !.response_time_ms = None]
    ELSE [st EXCEPT !.online = (outcome = "success"), !.last_seen = "Some",
                    !.response_time_ms = "Some",
                    !.error_count = IF outcome = "success" THEN 0 ELSE @ + 1]

HcProbe ==
    /\ hc.pc = "probe"
    /\ CanWrite("hc", "status")
    /\ guards' = [guards EXCEPT !["hc"] = {}]
    /\ \E outcome \in HealthOutcomes :
         /\ ctlStatus' = HealthCheckStatus(ctlStatus, outcome)
         /\ hc' = [hc EXCEPT !.pc = IF outcome = "success" THEN "tick"
                                    ELSE "cooldown",
                             !.hostname = None,
                             !.failed_checks = IF outcome = "success" THEN 0
                                               ELSE @ + 1]
    /\ UNCHANGED <<calls, pc, cur, settings, ctlTmp>>
    /\ CtlKeep

\* perform_health_check: sleep(5s) after a failed check
HcCooldown ==
    /\ hc.pc = "cooldown"
    /\ hc' = [hc EXCEPT !.pc = "tick"]
    /\ UNCHANGED <<calls, pc, cur, guards, settings, ctlStatus, ctlTmp>>
    /\ CtlKeep

HcStep == HcTick \/ HcProbe \/ HcCooldown

(***************************************************************************)
(* Specifications.  The three actors share no state; a run exercises the   *)
(* actors of its scope and leaves the others parked.                       *)
(***************************************************************************)
Scopes == { {"esp"}, {"usb"}, {"ctl"} }

Budget(sc) ==
    CASE sc = {"esp"} -> MaxEspReq
      [] sc = {"usb"} -> MaxUsbReq
      [] sc = {"ctl"} -> MaxCtlReq

\* the state after the constructors (CameraManager::new, UsbCameraManager::new,
\* ControllerMonitor::new) and the spawn of the three run() tasks
Constructed ==
    /\ calls = <<>>
    /\ senders = [a \in Actors |-> TRUE]
    /\ request_receiver = [a \in Actors |-> <<>>]
    /\ pc = [a \in Actors |->
                CASE a = "esp" -> "recv" [] a = "usb" -> "query" [] a = "ctl" -> "start"]
    /\ cur = [a \in Actors |-> NoCall]
    /\ guards = [t \in Tasks |-> {}]
    /\ bus = <<>>
    /\ busSent = 0
    /\ busNext = [s \in Subscribers |-> 0]
    /\ busGot = [s \in Subscribers |-> NothingReceived]
    /\ espStatus = EspStatusDefault
    /\ espHttp = 0
    /\ espProbe = [k \in DOMAIN network_camera_hostnames |-> NotProbed]
    /\ usbStatus = UsbStatusDefault
    /\ brightness_adjustments = <<>>
    /\ usbDetected = NotDetecting
    /\ usbHw = 0
    /\ settings = [esphome_hostname |-> HostA]
    /\ ctlStatus = CtlStatusInit(HostA)
    /\ ctlTmp = None
    /\ hc = HcOff
    /\ web = WebIdle
    /\ user_config = <<>>

Init ==
    /\ Constructed
    /\ scope \in Scopes
    /\ quota = Budget(scope)

Next ==
    \/ EspHandleOp
    \/ EspStep
    \/ UsbHandleOp
    \/ WebSetBrightness
    \/ UsbStep
    \/ CtlHandleOp
    \/ CtlHandleGetStatus
    \/ CtlStep
    \/ HcStep
    \/ \E a \in Actors : Recv(a)

Spec == Init /\ [][Next]_vars

\* Runs in which actors also stop and Shutdown is published.
InitLife ==
    /\ Constructed
    /\ scope \in Scopes
    /\ quota = IF scope = {"esp"} THEN MaxLifeEspReq ELSE MaxLifeReq

NextLife ==
    \/ Next
    \/ \E a \in Actors : DropHandles(a)
    \/ \E a \in Actors : Exit(a)
    \/ \E a \in Actors : Abort(a)
    \/ PublishShutdown

SpecLife == InitLife /\ [][NextLife]_vars

\* Runs of the global bus alone: web handlers publish, the web server's
\* subscription is polled, the base receiver never is.
InitBus ==
    /\ Constructed
    /\ scope = {}
    /\ quota = 0

NextBus ==
    \/ BusPublish
    \/ BusRecv("server")

SpecBus == InitBus /\ [][NextBus]_vars

\* runs in which callers may stop waiting for a reply
InitDrop ==
    /\ Constructed
    /\ scope \in Scopes
    /\ quota = IF scope = {"ctl"} THEN MaxDropCtlReq ELSE MaxDropReq

NextDrop ==
    \/ EspHandleOp
    \/ EspStep
    \/ UsbHandleOp
    \/ UsbStep
    \/ CtlHandleOp
    \/ CtlStep
    \/ HcStep
    \/ \E a \in Actors : Recv(a)
    \/ CallerGivesUp

SpecDrop == InitDrop /\ [][NextDrop]_vars

(***************************************************************************)
(* Vocabulary of the properties.                                           *)
(***************************************************************************)
Cams == {"esp", "usb"}

CamStatus(a) == IF a = "esp" THEN espStatus ELSE usbStatus

\* the command loop of actor a takes the step that handles request variant op
Taking(a, op) ==
    /\ pc[a] = "handle"
    /\ calls[cur[a]].op = op
    /\ pc'[a] # "handle"

\* what the caller of an operation observes: the value its handle method
\* returns, "Pending" while the method is still awaiting the reply slot
Pending == [tag |-> "Pending"]

CallerSees(c) ==
    CASE c.st \in {"closed", "refused"} -> c.reply
      [] c.via = "direct" -> c.reply
      [] ~c.slot -> Ok("unit")
      [] c.st = "done" -> c.reply
      [] c.st = "lost" -> Err("response failed", NoId)
      [] OTHER -> Pending

\* requests that entered a command channel
Sent(c) == c.st \in {"queued", "handling", "done", "lost"} /\ c.via # "direct"

(***************************************************************************)
(* The web server's select_cameras handler (server.rs), in front of the    *)
(* handles of the two camera actors.                                       *)
(***************************************************************************)
UsbPrefix == <<"usb", ":">>

\* camera_id.starts_with("usb:") sorts the payload into the two lists
UsbPart(ids) == SelectSeq(ids, LAMBDA id : StartsWith(id, UsbPrefix))

EspPart(ids) == SelectSeq(ids, LAMBDA id : ~StartsWith(id, UsbPrefix))

\* payloads of POST /api/cameras/select
WebSelectArgs ==
    { <<EspIdA, UsbIdA>>, <<EspIdA, UnknownUsbId>>, <<UnknownId, UsbIdA>>,
      <<EspIdA>>, <<UsbIdA>> }

\* what the handle method's future resolves to, once it does
Answered(i) == calls[i].st \in {"done", "closed", "lost"}

\* faulty variant: the handler goes on after a failed select
WebAfterSelectIgnoringErr(r, next) == next

\* if let Err(e) = ...select_cameras(..).await { return error }
WebAfterSelect(r, next) == IF r.tag = "Err" THEN "error" ELSE next

\* the USB part of the handler, from `if !usb_cameras.is_empty()`: the
\* select is sent to the USB actor, or the handler goes on to the save
WebSelectUsbPart(w) ==
    IF UsbPart(w.ids) # <<>>
    THEN /\ Push("usb", "SelectCameras", UsbPart(w.ids), TRUE, "web")
         /\ web' = [w EXCEPT !.pc = "usb", !.call = Len(calls) + 1]
    ELSE /\ web' = [w EXCEPT !.pc = "save", !.call = NoCall]
         /\ UNCHANGED <<calls, request_receiver>>

\* select_cameras up to its first await; usb_before and config_before
\* remember the USB selection and the persisted selection at that moment
WebSelectBegin ==
    /\ web.pc = "idle"
    /\ Len(calls) + 1 < quota
    /\ \E ids \in WebSelectArgs :
         LET w == [pc |-> "begin", ids |-> ids, call |-> NoCall,
                   failed |-> "none",
                   usb_before |-> usbStatus.selected_cameras,
                   config_before |-> user_config]
         IN  IF EspPart(ids) # <<>>
             THEN /\ Push("esp", "SelectCameras", EspPart(ids), TRUE, "web")
                  /\ web' = [w EXCEPT !.pc = "esp", !.call = Len(calls) + 1]
             ELSE WebSelectUsbPart(w)
    /\ UNCHANGED <<scope, quota, senders, pc, cur, guards, busVars, actorVars,
                   user_config>>

\* the ESPHome select was answered
WebSelectEspReply ==
    /\ web.pc = "esp"
    /\ Answered(web.call)
    /\ IF WebAfterSelect(CallerSees(calls[web.call]), "usb") = "error"
       THEN /\ web' = [web EXCEPT !.pc = "error", !.failed = "esp"]
            /\ UNCHANGED <<calls, request_receiver>>
       ELSE WebSelectUsbPart(web)
    /\ UNCHANGED <<scope, quota, senders, pc, cur, guards, busVars, actorVars,
                   user_config>>

\* the USB select was answered
WebSelectUsbReply ==
    /\ web.pc = "usb"
    /\ Answered(web.call)
    /\ web' = IF WebAfterSelect(CallerSees(calls[web.call]), "save") = "error"
              THEN [web EXCEPT !.pc = "error", !.failed = "usb"]
              ELSE [web EXCEPT !.pc = "save"]
    /\ UNCHANGED <<scope, quota, calls, senders, request_receiver, pc, cur,
                   guards, busVars, actorVars, user_config>>

\* load_user_config, set_selected_cameras, save_user_config: a failed save
\* is logged and the request succeeds all the same
WebSelectSave ==
    /\ web.pc = "save"
    /\ user_config' \in {web.ids, user_config}
    /\ web' = [web EXCEPT !.pc = "success"]
    /\ UNCHANGED <<scope, quota, calls, senders, request_receiver, pc, cur,
                   guards, busVars, actorVars>>

\* the response is written: Json(ApiResponse::success / error)
WebSelectRespond ==
    /\ web.pc \in {"success", "error"}
    /\ web' = WebIdle
    /\ UNCHANGED <<scope, quota, calls, senders, request_receiver, pc, cur,
                   guards, busVars, actorVars, user_config>>

WebSelectCameras ==
    \/ WebSelectBegin
    \/ WebSelectEspReply
    \/ WebSelectUsbReply
    \/ WebSelectSave
    \/ WebSelectRespond

\* runs of the web server's select_cameras handler in front of the two
\* camera actors: the USB actor's detection at start, ESPHome detects, and
\* the selects the handler sends
InitWeb ==
    /\ Constructed
    /\ scope = {"esp", "usb"}
    /\ quota = MaxWebCalls

NextWeb ==
    \/ HandleSend("esp", "DetectCameras", NoId, FALSE)
    \/ EspDetectProbe
    \/ EspDetectCameras
    \/ EspSelectCameras
    \/ UsbDetectQuery
    \/ UsbDetectInsert
    \/ UsbDetectDone
    \/ UsbSelectCameras
    \/ WebSelectCameras
    \/ \E a \in Actors : Recv(a)

SpecWeb == InitWeb /\ [][NextWeb]_vars

(***************************************************************************)
(* C1: select(ids) on the ESPHome and on the USB camera actor is           *)
(* all-or-nothing.  If some requested id is not a key of the cached device *)
(* map, the reply is an error naming a missing id and the status cell is   *)
(* left as it was; otherwise the reply is Ok and selected_cameras becomes  *)
(* exactly ids, nothing else changing.                                     *)
(***************************************************************************)
C1_SelectAllOrNothing ==
    [][\A a \in Cams : Taking(a, "SelectCameras") =>
        LET ids == calls[cur[a]].arg
            missing == {ids[k] : k \in DOMAIN ids} \ DOMAIN CamStatus(a).cameras
        IN  IF missing # {}
            THEN /\ calls'[cur[a]].reply.tag = "Err"
                 /\ calls'[cur[a]].reply.id \in missing
                 /\ CamStatus(a)' = CamStatus(a)
            ELSE /\ calls'[cur[a]].reply = Ok("unit")
                 /\ CamStatus(a)' = [CamStatus(a) EXCEPT !.selected_cameras = ids]
      ]_vars

\* a select naming a known and an unknown id was refused while a camera
\* was selected, and that selection is still in place
C1_Witness ==
    /\ espStatus.selected_cameras = <<EspIdA>>
    /\ \E i \in CallIds :
         /\ calls[i].actor = "esp"
         /\ calls[i].op = "SelectCameras"
         /\ calls[i].arg = <<EspIdA, UnknownId>>
         /\ calls[i].st = "done"
         /\ calls[i].reply = Err("not found", UnknownId)

(***************************************************************************)
(* C2: within one actor, requests are handled in the order in which they   *)
(* were enqueued.  When the handling of a request has begun, every request *)
(* enqueued earlier on the same actor is finished: its effect is applied   *)
(* and, if it carries a reply slot, its reply was sent.                    *)
(***************************************************************************)
C2_Fifo ==
    \A i, j \in CallIds :
        ( /\ i < j
          /\ calls[i].actor = calls[j].actor
          /\ Sent(calls[i])
          /\ Sent(calls[j])
          /\ calls[j].st \in {"handling", "done"} )
        => /\ calls[i].st = "done"
           /\ calls[i].slot => calls[i].sends = 1

\* the later of two requests of one actor is being handled, the earlier one
\* has been answered
C2_Witness ==
    \E a \in Actors : \E i, j \in CallIds :
        /\ i < j
        /\ calls[i].actor = a /\ calls[j].actor = a
        /\ calls[i].st = "done" /\ calls[i].sends = 1
        /\ calls[j].st = "handling" /\ cur[a] = j

(***************************************************************************)
(* C3: a reply slot is fulfilled exactly once or dropped, never twice.     *)
(* A request that the actor took from its channel and finished has had     *)
(* exactly one send on its slot; a request still queued or being handled,  *)
(* or dropped with the receiver, has had none.                             *)
(***************************************************************************)
C3_ReplyOnce ==
    \A i \in CallIds :
        /\ calls[i].sends <= 1
        /\ (Sent(calls[i]) /\ calls[i].slot /\ calls[i].st = "done")
              => (calls[i].sends = 1 /\ calls[i].reply # NoReply)
        /\ calls[i].st \in {"queued", "handling", "lost"}
              => (calls[i].sends = 0 /\ calls[i].reply = NoReply)

\* a request was answered, and its actor has stopped since
C3_Witness ==
    \E i \in CallIds :
        /\ calls[i].slot
        /\ calls[i].st = "done"
        /\ calls[i].sends = 1
        /\ ~Running(calls[i].actor)

(***************************************************************************)
(* C4: an actor handles at most one request at any instant.  The request   *)
(* marked as being handled is the one the command loop holds, and the loop *)
(* holds none while it waits in recv().                                    *)
(***************************************************************************)
C4_OneAtATime ==
    \A a \in Actors :
        /\ {i \in CallIds : calls[i].actor = a /\ calls[i].st = "handling"}
             = (IF cur[a] = NoCall THEN {} ELSE {cur[a]})
        /\ pc[a] \in {"recv", "stopped", "start"} => cur[a] = NoCall

\* a request waits in the channel while the actor is inside an outbound call
\* of the request it is handling
C4_Witness ==
    \E a \in Actors :
        /\ pc[a] \in {"probing", "snapshot", "camera", "post", "sensor1",
                      "sensor2", "device_info"}
        /\ cur[a] # NoCall
        /\ request_receiver[a] # <<>>

(***************************************************************************)
(* C5: after Shutdown has been published on the global bus, no command     *)
(* enqueued afterwards is honored: the command loop never completes it and *)
(* never sends on its reply slot.                                          *)
(***************************************************************************)
C5_NoCommandAfterShutdown ==
    \A i \in CallIds :
        (calls[i].late /\ Sent(calls[i]))
            => /\ calls[i].st # "done"
               /\ calls[i].sends = 0

Toggles(a) ==
    {i \in CallIds : /\ calls[i].actor = a
                     /\ calls[i].op \in {"StartStreaming", "StopStreaming"}
                     /\ calls[i].st = "done"}

LastToggle(a) == CHOOSE i \in Toggles(a) : \A j \in Toggles(a) : j <= i

C7_StreamingFollowsLastToggle ==
    \A a \in Cams :
        CamStatus(a).streaming =
            (Toggles(a) # {} /\ calls[LastToggle(a)].op = "StartStreaming")

C7_ToggleStep ==
    \A a \in Cams : \A op \in {"StartStreaming", "StopStreaming"} :
        Taking(a, op) =>
            /\ calls'[cur[a]].reply = Ok("unit")
            /\ CamStatus(a)' =
                 [CamStatus(a) EXCEPT !.streaming = (op = "StartStreaming")]
            /\ brightness_adjustments' = brightness_adjustments

C7_StreamingToggle ==
    /\ []C7_StreamingFollowsLastToggle
    /\ [][C7_ToggleStep]_vars

\* start then stop were handled with nothing selected: streaming is off
C7_Witness ==
    \E a \in Cams : \E i, j \in Toggles(a) :
        /\ i < j
        /\ calls[i].op = "StartStreaming"
        /\ calls[j].op = "StopStreaming"
        /\ calls[i].reply = Ok("unit") /\ calls[j].reply = Ok("unit")
        /\ CamStatus(a).selected_cameras = <<>>
        /\ ~CamStatus(a).streaming

(***************************************************************************)
(* C8: capture(id) for an id that is not in the cached device map fails    *)
(* with the not-found error naming the id, issues no HTTP request and      *)
(* opens no camera device, and leaves the actor's state unchanged.         *)
(***************************************************************************)
C8_CaptureUnknownNotFound ==
    [][\A a \in Cams : \A op \in {"CaptureImage", "CaptureStreamingFrame"} :
        (Taking(a, op) /\ calls[cur[a]].arg \notin DOMAIN CamStatus(a).cameras)
            => /\ calls'[cur[a]].reply = Err("not found", calls[cur[a]].arg)
               /\ pc'[a] = "recv"
               /\ UNCHANGED <<espVars, usbVars>>
      ]_vars

\* a capture on the USB actor was refused as not found after a detect that
\* reported no camera, and no camera device was opened
C8_Witness ==
    \E i \in CallIds :
        /\ calls[i].actor = "usb"
        /\ calls[i].op = "CaptureImage"
        /\ calls[i].arg = UsbIdA
        /\ calls[i].st = "done"
        /\ calls[i].reply = Err("not found", UsbIdA)
        /\ usbHw = 0
        /\ \E j \in 1..(i - 1) :
             /\ calls[j].op = "DetectCameras"
             /\ calls[j].reply = Ok(<<>>)

C10_OutOfRangeRejected ==
    [][(Taking("usb", "SetBrightness")
          /\ calls[cur["usb"]].arg.brightness \notin 0..255)
        => /\ calls'[cur["usb"]].reply.tag = "Err"
           /\ brightness_adjustments' = brightness_adjustments
      ]_vars

(***************************************************************************)
(* C11: when a USB detect cycle completes successfully, the keys of the    *)
(* cached device map are exactly the hardware ids of that enumeration and  *)
(* the enumeration is what the detect returns; between detect cycles the   *)
(* key set does not change, and list() returns the cached devices.  So a   *)
(* device of an earlier detect that the latest enumeration lacks is absent *)
(* from list() afterwards.                                                 *)
(***************************************************************************)
SeqRange(q) == {q[i] : i \in DOMAIN q}

HardwareIds(cameras) == {cameras[i].hardware_id : i \in DOMAIN cameras}

C11_DetectStep ==
    (pc["usb"] = "detect" /\ pc'["usb"] = "recv") =>
        /\ DOMAIN usbStatus'.cameras = HardwareIds(usbDetected.cameras)
        /\ \A id \in DOMAIN usbStatus'.cameras :
              usbStatus'.cameras[id] \in SeqRange(usbDetected.cameras)
        /\ cur["usb"] # NoCall =>
              calls'[cur["usb"]].reply = Ok(usbDetected.cameras)

C11_BetweenDetects ==
    pc["usb"] # "detect" => DOMAIN usbStatus'.cameras = DOMAIN usbStatus.cameras

C11_ListStep ==
    Taking("usb", "ListCameras") =>
        calls'[cur["usb"]].reply =
            Ok({usbStatus.cameras[k] : k \in DOMAIN usbStatus.cameras})

C11_UsbDetectReplacesDeviceSet ==
    [][C11_DetectStep /\ C11_BetweenDetects /\ C11_ListStep]_vars

\* a camera that could be selected after the initial detect is missing from
\* the enumeration of a later detect, and from the cached device map
C11_Witness ==
    \E i, j \in CallIds :
        /\ i < j
        /\ calls[i].actor = "usb" /\ calls[i].op = "SelectCameras"
        /\ calls[i].arg = <<UsbIdA>> /\ calls[i].reply = Ok("unit")
        /\ calls[j].actor = "usb" /\ calls[j].op = "DetectCameras"
        /\ calls[j].st = "done" /\ calls[j].reply.tag = "Ok"
        /\ UsbIdA \notin HardwareIds(calls[j].reply.val)
        /\ UsbIdA \notin DOMAIN usbStatus.cameras
        /\ usbStatus.cameras # <<>>

(***************************************************************************)
(* C12: after an ESPHome detect cycle, a configured network camera whose   *)
(* probe failed is still a key of the cached device map, hence in list(),  *)
(* and is reported with online = FALSE.                                    *)
(***************************************************************************)
C12_FailedProbeStaysListed ==
    [][(pc["esp"] = "probing" /\ pc'["esp"] = "recv") =>
        \A k \in DOMAIN network_camera_hostnames :
            espProbe'[k].last = "failed" =>
                LET id == EspCameraId(network_camera_hostnames[k]) IN
                /\ id \in DOMAIN espStatus'.cameras
                /\ ~espStatus'.cameras[id].online
      ]_vars

(***************************************************************************)
(* C13: getStatus on a camera actor returns the state that results from    *)
(* applying, one after the other in queue order, every request enqueued    *)
(* before it on that actor.  All those requests are finished; streaming is *)
(* what the last start/stop among them set; selected_cameras is the list   *)
(* of the last select among them that was accepted (empty if none); and a  *)
(* select that was refused as not found leaves the next getStatus equal to *)
(* the previous one.                                                       *)
(***************************************************************************)
Earlier(i, ops) ==
    {j \in 1..(i - 1) : /\ calls[j].actor = calls[i].actor
                         /\ Sent(calls[j])
                         /\ calls[j].op \in ops}

Latest(S) == CHOOSE j \in S : \A k \in S : k <= j

AllOps == {calls[j].op : j \in CallIds}

AcceptedSelects(i) ==
    {j \in Earlier(i, {"SelectCameras"}) : calls[j].reply = Ok("unit")}

StatusReplies(a) ==
    {i \in CallIds : /\ calls[i].actor = a
                      /\ calls[i].op = "GetStatus"
                      /\ calls[i].st = "done"}

C14_NothingLost ==
    \A s \in Subscribers :
        /\ busSent - busNext[s] <= BusCapacity
        /\ busGot[s].count = busNext[s]
        /\ busGot[s].last = busNext[s]
        /\ busGot[s].lagged = 0

C14_InOrder ==
    \A s \in Subscribers :
        busGot'[s].last # busGot[s].last => busGot'[s].last = busGot[s].last + 1

C14_EveryEventOnceInOrder == []C14_NothingLost /\ [][C14_InOrder]_vars

(***************************************************************************)
(* C15: no task holds a guard of a status cell or of the settings lock     *)
(* while one of its network or hardware calls is in flight.                *)
(***************************************************************************)
IoLabels == {"probing", "snapshot", "query", "camera", "post", "sensor1",
             "sensor2", "device_info"}

CtlBusy == {"handle", "post", "status", "sensor1", "sensor2", "device_info",
            "reset"}

C17_SettingsStep ==
    (Handling("ctl", "UpdateConfig") /\ pc'["ctl"] = "reset") =>
        /\ ctlTmp' = settings.esphome_hostname
        /\ settings'.esphome_hostname = calls[cur["ctl"]].arg
        /\ ctlStatus' = ctlStatus

\* the step that completes the command
C17_CompletionStep ==
    (pc["ctl"] = "reset" /\ pc'["ctl"] # "reset") =>
        LET i == cur["ctl"]
            new == calls[i].arg
        IN  /\ calls'[i].st = "done"
            /\ calls'[i].sends = 1
            /\ calls'[i].reply = Resp("ConfigUpdated", NoId)
            /\ settings'.esphome_hostname = new
            /\ IF ctlTmp # new
               THEN ctlStatus' = [online |-> FALSE, hostname |-> new,
                                  last_seen |-> None,
                                  response_time_ms |-> None,
                                  error_count |-> 0,
                                  uptime_seconds |-> ctlStatus.uptime_seconds]
               ELSE ctlStatus' = ctlStatus

C17_UpdateConfigResetsIffChanged ==
    [][C17_SettingsStep /\ C17_CompletionStep]_vars

\* both cases happened: a first UpdateConfig changed the hostname, a second
\* one with the same hostname completed, and the status cell holds the
\* result of a successful health check of the new hostname
C17_Witness ==
    /\ Len(calls) = 2
    /\ \A i \in 1..2 :
          /\ calls[i].op = "UpdateConfig"
          /\ calls[i].arg = HostB
          /\ calls[i].reply = Resp("ConfigUpdated", NoId)
    /\ settings.esphome_hostname = HostB
    /\ ctlStatus.hostname = HostB
    /\ ctlStatus.online
    /\ pc["ctl"] = "recv"

(***************************************************************************)
(* C18: a hostname change invalidates cached health data under every       *)
(* interleaving with the health-check task.  Once UpdateConfig has changed *)
(* the hostname, a probe that was issued to the previous hostname, also    *)
(* one that was in flight when the change was applied, never makes the     *)
(* status cell report online = true, a last_seen or a response time.       *)
(***************************************************************************)
\* the probe in flight was sent to a hostname that UpdateConfig has since
\* replaced, in the settings and in the status cell
StaleProbe ==
    /\ hc.pc = "probe"
    /\ ctlStatus.hostname = settings.esphome_hostname
    /\ hc.hostname # settings.esphome_hostname

C18_StaleProbeIgnored ==
    [][(StaleProbe /\ hc'.pc # "probe") =>
          /\ ~ctlStatus'.online
          /\ ctlStatus'.last_seen = ctlStatus.last_seen
          /\ ctlStatus'.response_time_ms = ctlStatus.response_time_ms]_vars

(***************************************************************************)
(* C19: each completed health check performs exactly one atomic write of   *)
(* the status cell.  On a successful probe online becomes true and         *)
(* error_count becomes 0; on a failed probe (transport error or a          *)
(* non-success status) online becomes false and error_count grows by       *)
(* exactly 1.  So error_count always equals the number of consecutive      *)
(* failed checks since the last successful check or hostname change.       *)
(***************************************************************************)
\* the step that completes a check is the one write of the check
C19_CheckCompletes ==
    (hc.pc = "probe" /\ hc'.pc # "probe") =>
        \/ /\ hc'.pc = "tick"
           /\ ctlStatus'.online
           /\ ctlStatus'.error_count = 0
        \/ /\ hc'.pc = "cooldown"
           /\ ~ctlStatus'.online
           /\ ctlStatus'.error_count = ctlStatus.error_count + 1

\* the other steps of the health-check task do not write the status cell
C19_NoOtherWrite ==
    (hc'.pc # hc.pc /\ hc.pc # "probe") => ctlStatus' = ctlStatus

C19_CountsConsecutiveFailures == ctlStatus.error_count = hc.failed_checks

C19_OneWritePerHealthCheck ==
    /\ []C19_CountsConsecutiveFailures
    /\ [][C19_CheckCompletes /\ C19_NoOtherWrite]_vars

\* two checks failed in a row, the first with a non-success status and the
\* second with a transport error, and no command was sent
C19_Witness ==
    /\ calls = <<>>
    /\ hc.count = 2
    /\ hc.pc = "cooldown"
    /\ ctlStatus.error_count = 2
    /\ ~ctlStatus.online
    /\ ctlStatus.last_seen = "Some"
    /\ ctlStatus.response_time_ms = None

(***************************************************************************)
(* C20: a hardware or transport failure during a command never terminates  *)
(* the actor and never desynchronizes its state.  The failing command is   *)
(* answered with a typed error through its reply slot, the status cell and *)
(* the device set are the same as before the command, and the actor goes   *)
(* on to handle the next queued request.  The calls concerned are the ones *)
(* a handler makes to carry out its command: the POSTs and sensor GETs of  *)
(* the controller, the snapshot GET, the USB query and the USB capture.    *)
(* The probes of the ESPHome detect and of the health check, whose         *)
(* failures are an outcome of the discovery, are not concerned.            *)
(***************************************************************************)
TypedErrors == {"Err", "Error"}

\* a finished request that met a failure was answered once, with an error
C20_FailureAnswered ==
    \A i \in CallIds :
        (calls[i].hw_failed /\ calls[i].st = "done") =>
            /\ calls[i].sends = 1
            /\ calls[i].reply.tag \in TypedErrors

\* the steps a handler takes when and after one of its calls failed leave
\* the status cells, the device sets and the settings alone, and the step
\* that finishes the request takes the actor back to recv()
C20_FailureStep ==
    \A a \in Actors :
        (/\ cur[a] # NoCall
         /\ pc'[a] # pc[a]
         /\ calls'[cur[a]].hw_failed) =>
            /\ espStatus' = espStatus
            /\ usbStatus' = usbStatus
            /\ brightness_adjustments' = brightness_adjustments
            /\ ctlStatus' = ctlStatus
            /\ settings' = settings
            /\ pc'[a] # "stopped"
            /\ calls'[cur[a]].st = "done" => pc'[a] = "recv"

C20_FailureKeepsActorInSync ==
    /\ []C20_FailureAnswered
    /\ [][C20_FailureStep]_vars

(***************************************************************************)
(* C21: a caller that stops waiting (drops its reply receiver) before the  *)
(* actor replies is harmless to the actor.  The actor still completes the  *)
(* operation, the failed send on the reply slot is only logged, and every  *)
(* later request is handled normally and in order.                         *)
(***************************************************************************)
\* no command loop ends; a failed send is the one send of a finished
\* request; requests are finished in arrival order, and a finished request
\* whose caller still waits has its reply
C21_LoopGoesOn ==
    /\ \A a \in Actors : pc[a] # "stopped"
    /\ \A i \in CallIds :
          /\ calls[i].send_err =>
                (calls[i].st = "done" /\ calls[i].sends = 1 /\ calls[i].dropped)
          /\ (calls[i].st = "done" /\ calls[i].slot /\ ~calls[i].dropped
              /\ calls[i].via = "handle") =>
                (calls[i].sends = 1 /\ calls[i].reply # NoReply)
    /\ \A i, j \in CallIds :
          (/\ i < j
           /\ calls[i].actor = calls[j].actor
           /\ Sent(calls[i]) /\ Sent(calls[j])
           /\ calls[j].st \in {"handling", "done"}) => calls[i].st = "done"

\* the step that finishes a request whose caller is gone applies the
\* operation to the actor's state and takes the loop back to recv()
C21_DroppedStep ==
    \A a \in Actors :
        (/\ cur[a] # NoCall
         /\ calls[cur[a]].dropped
         /\ calls'[cur[a]].st = "done") =>
            LET c == calls[cur[a]] IN
            /\ pc'[a] = "recv"
            /\ calls'[cur[a]].send_err
            /\ (a = "esp" /\ c.op = "SelectCameras") =>
                  espStatus' = EspSelectStatus(espStatus, c.arg)
            /\ (a = "esp" /\ c.op = "StartStreaming") =>
                  espStatus' = EspStartStatus(espStatus)
            /\ (a = "usb" /\ c.op = "SelectCameras") =>
                  usbStatus' = UsbSelectStatus(usbStatus, c.arg)
            /\ (a = "usb" /\ c.op = "StartStreaming") =>
                  usbStatus' = UsbStartStatus(usbStatus)
            /\ (a = "ctl" /\ c.op = "UpdateConfig") =>
                  settings'.esphome_hostname = c.arg

C21_DroppedReceiverHarmless ==
    /\ []C21_LoopGoesOn
    /\ [][C21_DroppedStep]_vars

\* the caller of StartStreaming gave up, the actor started the streaming all
\* the same, and the GetStatus sent after it was answered with that state
C21_Witness ==
    /\ Len(calls) = 2
    /\ calls[1].actor = "esp" /\ calls[1].op = "StartStreaming"
    /\ calls[1].dropped /\ calls[1].send_err /\ calls[1].reply = NoReply
    /\ calls[2].op = "GetStatus" /\ calls[2].st = "done"
    /\ ~calls[2].dropped
    /\ calls[2].reply.tag = "Ok" /\ calls[2].reply.val.streaming

(***************************************************************************)
(* C22: a web select request that spans both camera kinds is two           *)
(* independent, individually atomic operations with no combined rollback.  *)
(* If the ESPHome select succeeds and the USB select then fails, the       *)
(* handler returns an error, the ESPHome selection stays at its newly set  *)
(* value, the USB selection is unchanged, and the persisted selection is   *)
(* not rewritten.                                                          *)
(***************************************************************************)
\* the handler is past its USB select, which was answered with an error
UsbSelectFailed ==
    /\ web.pc \in {"save", "success", "error"}
    /\ web.call # NoCall
    /\ calls[web.call].actor = "usb"
    /\ CallerSees(calls[web.call]).tag = "Err"

C22_NoCombinedRollback ==
    UsbSelectFailed =>
        /\ web.pc = "error"
        /\ EspPart(web.ids) # <<>> =>
              espStatus.selected_cameras = EspPart(web.ids)
        /\ usbStatus.selected_cameras = web.usb_before
        /\ user_config = web.config_before

\* the ESPHome camera of the payload was selected, the unknown USB id was
\* refused, and the handler is about to answer with the error
C22_Witness ==
    /\ UsbSelectFailed
    /\ web.pc = "error"
    /\ web.ids = <<EspIdA, UnknownUsbId>>
    /\ espStatus.selected_cameras = <<EspIdA>>
    /\ usbStatus.selected_cameras = <<>>
    /\ user_config = <<>>

(***************************************************************************)
(* C23: on start, every device actor performs one immediate detect (the    *)
(* camera actors) or health check (the controller monitor) as part of its  *)
(* Starting phase, completed before it handles the first queued command;   *)
(* a failure of this initial detect or health check does not prevent the   *)
(* actor from entering Running.                                            *)
(***************************************************************************)
\* the actor's initial detect or health check has been carried out
StartupCheckDone(a) ==
    CASE a = "usb" -> pc["usb"] \notin {"query", "detect"} \/ cur["usb"] # NoCall
      [] a = "esp" -> \E k \in DOMAIN espProbe : espProbe[k].last # "none"
      [] a = "ctl" -> hc.count >= 1 /\ (hc.count = 1 => hc.pc # "probe")

C23_StartupCheckBeforeFirstCommand ==
    /\ \A i \in CallIds :
          (Sent(calls[i]) /\ calls[i].st \in {"handling", "done"}) =>
              StartupCheckDone(calls[i].actor)
    /\ \A a \in scope : pc[a] # "stopped"

(***************************************************************************)
(* C24: device ids are unique within one actor's device set.  After a      *)
(* detect cycle the ids of the devices in the list returned by detect are  *)
(* pairwise distinct, and list() afterwards returns exactly those devices  *)
(* (same ids, same count), also when two configured hostnames differ only  *)
(* in port or scheme, or two USB cameras share vendor id, product id and   *)
(* name and have no serial number.  (The configured hostnames of the runs  *)
(* name two different hosts; the twin devices are a pair of USB cameras.)  *)
(***************************************************************************)
\* the id of a device record of either actor
DeviceId(info) ==
    IF "hardware_id" \in DOMAIN info THEN info.hardware_id ELSE info.id

\* detect calls that returned a list to their caller
DetectReplies ==
    {i \in CallIds : /\ calls[i].op = "DetectCameras"
                      /\ calls[i].st = "done"
                      /\ calls[i].slot
                      /\ calls[i].reply.tag = "Ok"}

C24_DeviceIdsUnique ==
    \A i \in DetectReplies :
        LET found == calls[i].reply.val IN
        /\ \A k, l \in DOMAIN found :
              k # l => DeviceId(found[k]) # DeviceId(found[l])
        /\ \A j \in CallIds :
              (/\ j = i + 1
               /\ calls[j].actor = calls[i].actor
               /\ calls[j].op = "ListCameras"
               /\ calls[j].st = "done") =>
                  /\ calls[j].reply.tag = "Ok"
                  /\ {DeviceId(d) : d \in calls[j].reply.val}
                        = {DeviceId(found[k]) : k \in DOMAIN found}
                  /\ Cardinality(calls[j].reply.val) = Len(found)

\* ---------------------------------------------------------------------
\* The status cell with its writes taken one field assignment at a time.
\* Between status.write().await and the end of the block the writer holds
\* the write guard; lock_status().await.clone() needs the read guard.

\* perform_health_check: status.write() is granted, online is assigned
HcWriteFirst ==
    /\ hc.pc = "probe"
    /\ CanWrite("hc", "status")
    /\ guards' = [guards EXCEPT !["hc"] = {"status.write"}]
    /\ \E outcome \in HealthOutcomes :
         /\ ctlStatus' = [ctlStatus EXCEPT !.online = (outcome = "success")]
         /\ hc' = [hc EXCEPT !.pc = "write", !.outcome = outcome]
    /\ UNCHANGED <<calls, pc, cur, settings, ctlTmp>>
    /\ CtlKeep

\* perform_health_check: the other fields are assigned, the guard is dropped
HcWriteRest ==
    /\ hc.pc = "write"
    /\ ctlStatus' = HealthCheckStatus(ctlStatus, hc.outcome)
    /\ guards' = [guards EXCEPT !["hc"] = {}]
    /\ hc' = [hc EXCEPT !.pc = IF hc.outcome = "success" THEN "tick"
                                ELSE "cooldown",
                        !.hostname = None,
                        !.outcome = None,
                        !.failed_checks = IF hc.outcome = "success" THEN 0
                                          ELSE @ + 1]
    /\ UNCHANGED <<calls, pc, cur, settings, ctlTmp>>
    /\ CtlKeep

\* update_config: lock_status_write() is granted, hostname is assigned
\* (nothing is written when the hostname did not change)
CtlUpdateFirst ==
    /\ pc["ctl"] = "reset"
    /\ IF ctlTmp # settings.esphome_hostname
       THEN /\ CanWrite("ctl", "status")
            /\ ctlStatus' = [ctlStatus EXCEPT
                                !.hostname = settings.esphome_hostname]
            /\ pc' = [pc EXCEPT !["ctl"] = "resetting"]
            /\ guards' = [guards EXCEPT !["ctl"] = {"status.write"}]
            /\ UNCHANGED <<calls, cur, ctlTmp>>
       ELSE /\ ctlStatus' = ctlStatus
            /\ CtlFinish(Resp("ConfigUpdated", NoId))
    /\ UNCHANGED <<settings, hc>>
    /\ CtlKeep

\* update_config: the health fields are reset, the guard is dropped
CtlUpdateRest ==
    /\ pc["ctl"] = "resetting"
    /\ ctlStatus' = UpdateConfigStatus(ctlStatus, ctlTmp, settings.esphome_hostname)
    /\ hc' = [hc EXCEPT !.failed_checks = 0]
    /\ CtlFinish(Resp("ConfigUpdated", NoId))
    /\ UNCHANGED settings
    /\ CtlKeep

InitCell ==
    /\ Constructed
    /\ scope = {"ctl"}
    /\ quota = MaxCellCalls

NextCell ==
    \/ \E h \in {HostA, HostB} : HandleSend("ctl", "UpdateConfig", h, TRUE)
    \/ CtlHandleGetStatus
    \/ Recv("ctl")
    \/ CtlStart
    \/ CtlUpdateSettings
    \/ CtlUpdateFirst
    \/ CtlUpdateRest
    \/ HcTick
    \/ HcWriteFirst
    \/ HcWriteRest
    \/ HcCooldown

SpecCell == InitCell /\ [][NextCell]_vars

\* a multi-field write of the status cell has begun and is not complete
WriteUnderWay == hc.pc = "write" \/ pc["ctl"] = "resetting"

\* the call records of ControllerHandle::get_status
StatusReads(cs) == { i \in DOMAIN cs : cs[i].op = "get_status" }

\* C25: every value returned by ControllerHandle::get_status is the content
\* of the status cell before or after a complete multi-field write: no read
\* of the cell happens while the health-check task or update_config has
\* assigned some of the fields of its write and not yet the others, and the
\* value returned is the content of the cell at the read.
C25_ConsistentSnapshot ==
    [][StatusReads(calls') # StatusReads(calls)
         => /\ ~WriteUnderWay
            /\ \A i \in StatusReads(calls') \ StatusReads(calls) :
                  calls'[i].reply = Ok(ctlStatus)]_vars

\* a read returned the cell as a failed health check left it, and another
\* one as update_config left it after that
C25_Witness ==
    \E i, j \in StatusReads(calls) :
        /\ i < j
        /\ calls[i].reply.val.error_count = 1
        /\ ~calls[i].reply.val.online
        /\ calls[j].reply.val.hostname = HostB
        /\ calls[j].reply.val.error_count = 0

\* ids USB detection has produced: in the device map, waiting to be
\* inserted, or returned to a caller
UsbDetectedIds ==
    DOMAIN usbStatus.cameras
    \cup { usbDetected.cameras[k].hardware_id : k \in DOMAIN usbDetected.cameras }
    \cup UNION { { calls[i].reply.val[k].hardware_id :
                     k \in DOMAIN calls[i].reply.val } :
                 i \in { j \in DetectReplies : calls[j].actor = "usb" } }

\* ids ESPHome detection has produced
EspDetectedIds == DOMAIN espStatus.cameras

\* the actor a select_cameras request of the web handler names id to
RoutedTo(id) ==
    { calls[i].actor :
        i \in { j \in DOMAIN calls :
                  /\ calls[j].via = "web"
                  /\ \E k \in DOMAIN calls[j].arg : calls[j].arg[k] = id } }

\* C26: every id produced by USB detection starts with "usb:" and no id
\* produced by ESPHome detection does, so the prefix test of the web
\* handlers puts every detected id into the part of the actor that owns it
\* and no request of a web handler names it to the other actor.
C26_PrefixRoutesToOwner ==
    /\ \A id \in UsbDetectedIds :
          /\ StartsWith(id, UsbPrefix)
          /\ UsbPart(<<id>>) = <<id>> /\ EspPart(<<id>>) = <<>>
          /\ RoutedTo(id) \subseteq {"usb"}
    /\ \A id \in EspDetectedIds :
          /\ ~StartsWith(id, UsbPrefix)
          /\ EspPart(<<id>>) = <<id>> /\ UsbPart(<<id>>) = <<>>
          /\ RoutedTo(id) \subseteq {"esp"}

\* both detections found a camera and a web select named each camera to its
\* own actor, which accepted it
C26_Witness ==
    /\ EspIdA \in EspDetectedIds
    /\ UsbIdA \in UsbDetectedIds
    /\ RoutedTo(EspIdA) = {"esp"}
    /\ RoutedTo(UsbIdA) = {"usb"}
    /\ espStatus.selected_cameras = <<EspIdA>>
    /\ usbStatus.selected_cameras = <<UsbIdA>>

\* ---------------------------------------------------------------------
\* protocol.rs: CameraType. Camera id strings are taken character by
\* character here, so that the prefix test and the strip can go wrong.

USB_DEVICE_PREFIX_WITH_COLON == <<"u", "s", "b", ":">>

\* the characters of the id strings tried: those of the prefix and one more
IdChars == {"u", "s", "b", ":", "1"}

CameraIdStrings == UNION { [1..n -> IdChars] : n \in 0..MaxIdLen }

\* faulty variant: the Usb variant keeps the whole id
CameraTypeFromWhole(camera_id) ==
    IF StartsWith(camera_id, USB_DEVICE_PREFIX_WITH_COLON)
    THEN [variant |-> "Usb", name |-> camera_id]
    ELSE [variant |-> "EspHome", name |-> camera_id]

\* impl From<String> for CameraType
CameraTypeFrom(camera_id) ==
    IF StartsWith(camera_id, USB_DEVICE_PREFIX_WITH_COLON)
    THEN [variant |-> "Usb",
          name |-> SubSeq(camera_id, Len(USB_DEVICE_PREFIX_WITH_COLON) + 1,
                          Len(camera_id))]
    ELSE [variant |-> "EspHome", name |-> camera_id]

\* impl Serialize for CameraType: the string given to serialize_str
CameraTypeSerialize(camera_type) ==
    IF camera_type.variant = "EspHome" THEN camera_type.name
    ELSE USB_DEVICE_PREFIX_WITH_COLON \o camera_type.name

\* a handler turns the id of its path into a CameraType (camera_id.into())
\* and the CameraType is serialized
WebCameraType ==
    /\ web.pc = "idle"
    /\ \E camera_id \in CameraIdStrings :
         web' = [pc |-> "typed", id |-> camera_id,
                 camera_type |-> CameraTypeFrom(camera_id),
                 json |-> CameraTypeSerialize(CameraTypeFrom(camera_id))]
    /\ UNCHANGED <<scope, quota, calls, senders, request_receiver, pc, cur,
                   guards, busVars, actorVars, user_config>>

\* the handler returns
WebCameraTypeDone ==
    /\ web.pc = "typed"
    /\ web' = WebIdle
    /\ UNCHANGED <<scope, quota, calls, senders, request_receiver, pc, cur,
                   guards, busVars, actorVars, user_config>>

InitType ==
    /\ Constructed
    /\ scope = {}
    /\ quota = 0

NextType == WebCameraType \/ WebCameraTypeDone

SpecType == InitType /\ [][NextType]_vars

\* C27: for every camera id string s, converting s to a CameraType and
\* serializing it yields s again, and the conversion yields the Usb variant
\* iff s starts with "usb:" (the EspHome variant otherwise).
C27_CameraTypeRoundTrip ==
    web.pc = "typed" =>
        /\ web.json = web.id
        /\ web.camera_type.variant \in {"Usb", "EspHome"}
        /\ web.camera_type.variant = "Usb"
              <=> /\ Len(web.id) >= 4
                  /\ web.id[1] = "u" /\ web.id[2] = "s"
                  /\ web.id[3] = "b" /\ web.id[4] = ":"

\* "usb:1" became Usb("1") and was written as "usb:1"
C27_Witness ==
    /\ web.pc = "typed"
    /\ web.id = <<"u", "s", "b", ":", "1">>
    /\ web.camera_type = [variant |-> "Usb", name |-> <<"1">>]
    /\ web.json = web.id

\* detect calls whose handle method has returned Ok to the caller
DetectReturned ==
    { i \in DOMAIN calls : /\ calls[i].op = "DetectCameras"
                           /\ CallerSees(calls[i]).tag = "Ok" }

\* C28: when a detect() call on an actor handle has returned successfully
\* to its caller, the actor has already finished the enumeration and
\* replaced its device set, and the caller has the new list (so that a
\* list() the caller issues afterwards reflects that detect cycle).
C28_DetectReturnsAfterReplacement ==
    \A i \in DetectReturned :
        /\ calls[i].st = "done"
        /\ CallerSees(calls[i]) # Ok("unit")

\* ---------------------------------------------------------------------
\* The actors under the scheduler: a task that can take a step is polled
\* again (tokio runs every ready task), and every outbound hardware call
\* comes back with success, an error or a timeout. The callers are free to
\* invoke operations or not.

InitFair ==
    /\ Constructed
    /\ scope \in { {"esp"}, {"ctl"} }
    /\ quota = MaxFairReq

\* the requests of the controller that make outbound calls, and their steps
FairCtlHandleOp ==
    \E op \in {"NextCase", "GetSensors"} : HandleSend("ctl", op, NoId, TRUE)

FairCtlStep ==
    \/ CtlStart \/ CtlPostSend \/ CtlPostReply
    \/ CtlSensorsSend \/ CtlSensorFirst \/ CtlSensorSecond

NextFair ==
    \/ EspHandleOp
    \/ EspStep
    \/ FairCtlHandleOp
    \/ FairCtlStep
    \/ HcStep
    \/ \E a \in {"esp", "ctl"} : Recv(a)

\* (every step of a command loop moves its position pc; every step of the
\* health-check task moves hc.pc)
Fairness ==
    /\ \A a \in {"esp", "ctl"} : WF_pc(Recv(a))
    /\ WF_pc(EspStep)
    /\ WF_pc(FairCtlStep)
    /\ WF_<<hc.pc>>(HcStep)

SpecFair == InitFair /\ [][NextFair]_vars /\ Fairness

\* request i is in a command channel or being handled
Waiting(i) == i \in DOMAIN calls /\ calls[i].st \in {"queued", "handling"}

\* request i was handled, and answered if it has a reply slot
Served(i) ==
    /\ i \in DOMAIN calls
    /\ calls[i].st = "done"
    /\ calls[i].slot => CallerSees(calls[i]) # Pending

UsbIdB == generate_hardware_id(1, DevB)

\* accepted brightness values: both ends, the default and one more
AcceptedBrightness == {0, 50, 77, 255}

BrightSetArgs ==
    { [id |-> id, brightness |-> b] : id \in {UsbIdA, UsbIdB},
                                      b \in AcceptedBrightness }

InitBright ==
    /\ Constructed
    /\ scope = {"usb"}
    /\ quota = MaxBrightReq

NextBright ==
    \/ \E x \in BrightSetArgs : HandleSend("usb", "SetBrightness", x, TRUE)
    \/ \E id \in {UsbIdA, UsbIdB} : HandleSend("usb", "GetBrightness", id, TRUE)
    \/ UsbDetectQuery
    \/ UsbDetectInsert
    \/ UsbDetectDone
    \/ UsbSetBrightness
    \/ UsbGetBrightness
    \/ Recv("usb")

SpecBright == InitBright /\ [][NextBright]_vars

\* the setBrightness calls on id that the actor accepted before call j
\* was made
SetsBefore(j, id) ==
    { i \in 1..(j - 1) : /\ calls[i].op = "SetBrightness"
                         /\ calls[i].arg.id = id
                         /\ calls[i].st = "done"
                         /\ calls[i].reply.tag = "Ok" }

\* getBrightness calls that returned a value
BrightnessReads ==
    { j \in DOMAIN calls : /\ calls[j].op = "GetBrightness"
                           /\ calls[j].st = "done"
                           /\ calls[j].reply.tag = "Ok" }

\* C30: for every known USB device and every accepted brightness b in
\* [0,255], setBrightness(id, b) followed by getBrightness(id) returns
\* exactly b; setting the brightness of another device in between does not
\* change it; and a device for which no brightness was ever set reports 50.
C30_BrightnessRoundTrip ==
    \A j \in BrightnessReads :
        LET S == SetsBefore(j, calls[j].arg) IN
        calls[j].reply.val =
            IF S = {} THEN 50 ELSE calls[Latest(S)].arg.brightness

\* 255 was set for one camera, then 0 for the other, and the first one
\* still reads 255
C30_Witness ==
    /\ Len(calls) = 3
    /\ calls[1].op = "SetBrightness"
    /\ calls[1].arg = [id |-> UsbIdA, brightness |-> 255]
    /\ calls[2].op = "SetBrightness"
    /\ calls[2].arg = [id |-> UsbIdB, brightness |-> 0]
    /\ calls[2].reply = Ok("unit")
    /\ 3 \in BrightnessReads
    /\ calls[3].arg = UsbIdA
    /\ calls[3].reply = Ok(255)

\* C31: in the controller status cell, online = true implies error_count = 0
\* and last_seen is set, in every reachable state, whatever the interleaving
\* of health checks, hardware commands and configuration updates.
C31_OnlineImpliesHealthy ==
    ctlStatus.online =>
        /\ ctlStatus.error_count = 0
        /\ ctlStatus.last_seen = "Some"

\* the cell was read with one failed check counted, and the controller is
\* online now
C31_Witness ==
    /\ ctlStatus.online
    /\ ctlStatus.error_count = 0
    /\ \E i \in DOMAIN calls :
          /\ calls[i].op = "get_status"
          /\ calls[i].reply.val.error_count = 1

\* the MachineStatus values returned for GetStatus commands
MachineStatusReplies ==
    { calls[i].reply.val :
        i \in { j \in DOMAIN calls : /\ calls[j].op = "GetStatus"
                                     /\ calls[j].st = "done"
                                     /\ calls[j].reply.tag = "StatusData" } }

\* C32: every MachineStatus returned for a GetStatus command is internally
\* consistent: ready is true iff status is "Ready" (and false iff it is
\* "Offline"), whatever the health-check task does meanwhile.
C32_MachineStatusConsistent ==
    \A m \in MachineStatusReplies :
        /\ m.status \in {"Ready", "Offline"}
        /\ m.ready <=> m.status = "Ready"

\* the ids of a sequence of ids
Ids(ids) == { ids[k] : k \in DOMAIN ids }

\* C33: in every reachable state of a camera actor, every id in
\* selected_cameras is a key of the cached device set, also after a detect
\* cycle that drops a previously selected device.
C33_SelectedAreCached ==
    /\ Ids(espStatus.selected_cameras) \subseteq DOMAIN espStatus.cameras
    /\ Ids(usbStatus.selected_cameras) \subseteq DOMAIN usbStatus.cameras

\* ---------------------------------------------------------------------
\* A status query on the global bus (web_server/controller.rs). The event
\* carries the oneshot sender in an Arc; the handler awaits the receiver.

\* The ring keeps the event at position pos, and with it a clone of the Arc
\* that holds the sender, until every receiver has taken the event or a
\* later event overwrites its slot.
SlotHolds(pos) ==
    /\ pos > busSent - BusCapacity
    /\ \E s \in Subscribers : busNext[s] < pos

\* hardware_status / machine_status: global_tx.send(query), then
\* receiver.await
WebQueryPublish ==
    /\ web.pc = "idle"
    /\ busSent <= MaxQueryAt
    /\ busSent < MaxBusSent
    /\ busSent' = busSent + 1
    /\ web' = [pc |-> "query", pos |-> busSent + 1, replies |-> 0]
    /\ UNCHANGED <<scope, quota, calls, senders, request_receiver, pc, cur,
                   guards, bus, busNext, busGot, actorVars, user_config>>

\* a subscriber that polls takes the query and answers it through the slot;
\* a oneshot sender is consumed by send, so there is no second reply
BusRecvAnswer(s) ==
    /\ web.pc = "query"
    /\ web.replies = 0
    /\ busNext[s] < busSent
    /\ LET r == BusRecvResult(busNext[s], busGot[s], busSent) IN
       /\ r.got.last = web.pos
       /\ r.got.count = busGot[s].count + 1
       /\ busNext' = [busNext EXCEPT ![s] = r.next]
       /\ busGot' = [busGot EXCEPT ![s] = r.got]
    /\ web' = [web EXCEPT !.replies = @ + 1]
    /\ UNCHANGED <<scope, quota, calls, senders, request_receiver, pc, cur,
                   guards, bus, busSent, actorVars, user_config>>

\* receiver.await returns: Ok(status) when a reply was sent, Err(RecvError)
\* when every clone of the sender is gone
WebQueryReturn ==
    /\ web.pc = "query"
    /\ web.replies > 0 \/ ~SlotHolds(web.pos)
    /\ web' = [pc |-> IF web.replies > 0 THEN "replied" ELSE "reply dropped",
               pos |-> web.pos, replies |-> web.replies]
    /\ UNCHANGED <<scope, quota, calls, senders, request_receiver, pc, cur,
                   guards, busVars, actorVars, user_config>>

InitQuery ==
    /\ Constructed
    /\ scope = {}
    /\ quota = 0

NextQuery ==
    \/ BusPublish
    \/ WebQueryPublish
    \/ BusRecv("server")
    \/ BusRecvAnswer("server")
    \/ WebQueryReturn

\* the web server's subscription is polled, and a handler whose receiver is
\* ready returns; the receiver kept in start_web_server is never polled
SpecQuery ==
    /\ InitQuery
    /\ [][NextQuery]_vars
    /\ WF_busNext(BusRecv("server") \/ BusRecvAnswer("server"))
    /\ WF_web(WebQueryReturn)

\* C34: a query published on the global bus with an embedded one-shot reply
\* slot always completes for its publisher: the publisher eventually gets a
\* reply or a reply-dropped error, also when no subscriber answers or a
\* subscriber never reads the event; and it gets at most one reply.
C34_QueryCompletes ==
    /\ [](web.pc \in {"query", "replied", "reply dropped"} => web.replies <= 1)
    /\ (web.pc = "query") ~> (web.pc \in {"replied", "reply dropped"})

\* C35: the controller monitor's health-check task stops together with its
\* actor: once the command loop has exited, no further health probe is
\* issued and the status cell is never written again.
C35_HealthCheckStopsWithActor ==
    [][pc["ctl"] = "stopped" /\ ~senders["ctl"]
         => /\ hc'.count = hc.count
            /\ ctlStatus' = ctlStatus]_vars

\* ---------------------------------------------------------------------
\* The command loops under the scheduler, with handles that may be dropped:
\* recv() returns None once no sender is left and the queue is empty.

NextExit ==
    \/ NextFair
    \/ \E a \in {"esp", "ctl"} : DropHandles(a)
    \/ \E a \in {"esp", "ctl"} : Exit(a)

SpecExit ==
    /\ InitFair
    /\ [][NextExit]_vars
    /\ Fairness
    /\ \A a \in {"esp", "ctl"} : WF_pc(Exit(a))

\* the loop of a has returned
Exited(a) == a \in scope /\ pc[a] = "stopped"

\* nothing sent to a is waiting or was lost
AllServed(a) ==
    \A i \in DOMAIN calls :
        calls[i].actor = a /\ Sent(calls[i]) => calls[i].st = "done"

WholeDeviceSets ==
    { {} } \cup
    { { UsbCameraInfo(i - 1, devs[i]).hardware_id : i \in DOMAIN devs } :
        devs \in UsbQueryResults }

\* the device ids a reply to list() or getStatus() shows
SeenDevices(c) ==
    IF c.op = "ListCameras" THEN { info.hardware_id : info \in c.reply.val }
    ELSE DOMAIN c.reply.val.cameras

UsbReadOps == {"ListCameras", "GetStatus", "SelectCameras"}

\* a list(), getStatus() or select() of the USB actor is answered in this step
UsbReadAnswered(i) ==
    /\ calls[i].actor = "usb"
    /\ calls[i].op \in UsbReadOps
    /\ calls[i].st = "handling"
    /\ calls'[i].st = "done"

\* C37: a USB detect cycle is atomic for callers: no list(), getStatus() or
\* select() is answered while a cycle is under way, and the device set a
\* list() or getStatus() shows is always the set of one whole cycle.
C37_DetectCycleAtomic ==
    /\ [](\A i \in DOMAIN calls :
            /\ calls[i].actor = "usb"
            /\ calls[i].op \in {"ListCameras", "GetStatus"}
            /\ calls[i].st = "done"
            => SeenDevices(calls[i]) \in WholeDeviceSets)
    /\ [][\A i \in DOMAIN calls :
            UsbReadAnswered(i) =>
                /\ usbDetected = NotDetecting
                /\ DOMAIN usbStatus.cameras \in WholeDeviceSets]_vars

\* a list() answered after a second cycle replaced the only camera
C37_Witness ==
    /\ Len(calls) = 2
    /\ calls[1].op = "DetectCameras"
    /\ calls[1].st = "done"
    /\ calls[1].reply.tag = "Ok"
    /\ calls[2].op = "ListCameras"
    /\ calls[2].st = "done"
    /\ SeenDevices(calls[2]) = { UsbCameraInfo(0, DevB).hardware_id }
    /\ usbStatus.last_detection = "Some"

\* ---------------------------------------------------------------------
\* The next-case web handler (server.rs trigger_next_case).

\* ControllerHandle::send_command as its caller sees a finished request:
\* Ok(response) whatever the response is, Err when the reply slot was
\* dropped unanswered
send_command(c) ==
    IF c.st = "done" /\ c.reply # NoReply THEN Ok(c.reply)
    ELSE Err("Controller monitor did not respond", NoId)

\* trigger_next_case: ApiResponse::success on Ok(_), ApiResponse::error on Err
trigger_next_case(c) == [success |-> send_command(c).tag = "Ok"]

\* a next-case request whose send_command has returned
NextCaseReturned(c) ==
    /\ c.actor = "ctl"
    /\ c.op = "NextCase"
    /\ c.slot
    /\ c.st \in {"done", "lost"}
    /\ ~c.dropped

\* C38: the next-case web handler reports success = true only if the
\* controller monitor replied Success; when it replies Error or does not
\* answer, the envelope has success = false.
C38_NextCaseSuccessOnlyOnSuccess ==
    \A i \in DOMAIN calls :
        NextCaseReturned(calls[i]) /\ trigger_next_case(calls[i]).success
        => calls[i].reply.tag = "Success"

\* ---------------------------------------------------------------------
\* The select_cameras handler called again with another id list.

InitReselect ==
    /\ Constructed
    /\ scope = {"esp", "usb"}
    /\ quota = MaxReselectCalls

SpecReselect == InitReselect /\ [][NextWeb]_vars

\* C39: after the web select handler succeeds for an id list S, the
\* selections of the two camera actors together hold exactly the ids of S;
\* ids selected earlier and absent from S are selected in neither actor.
C39_SelectionsAreExactlyRequested ==
    web.pc = "success" =>
        Ids(espStatus.selected_cameras) \cup Ids(usbStatus.selected_cameras)
            = Ids(web.ids)

\* ---------------------------------------------------------------------
\* Per-device USB operations on an id that is not in the cached device set.

PerDeviceOps ==
    {"SetBrightness", "GetBrightness", "CaptureImage", "CaptureStreamingFrame",
     "SetCameraFormat"}

\* the hardware id a per-device request names
DeviceArg(c) ==
    IF c.op \in {"SetBrightness", "SetCameraFormat"} THEN c.arg.id ELSE c.arg

\* the USB actor takes its step on a per-device request whose id is unknown
UnknownDeviceHandled ==
    /\ "usb" \in scope
    /\ pc["usb"] = "handle"
    /\ pc'["usb"] # "handle"
    /\ calls[cur["usb"]].op \in PerDeviceOps
    /\ get_camera_info(usbStatus, DeviceArg(calls[cur["usb"]])).tag = "Err"

\* C40: every per-device USB operation on an id that is not in the cached
\* device set returns a not-found error and changes no state: setBrightness,
\* getBrightness, capture and setCameraFormat alike.
C40_UnknownDeviceNotFound ==
    [][UnknownDeviceHandled =>
         /\ calls'[cur["usb"]].st = "done"
         /\ calls'[cur["usb"]].reply =
              Err("not found", DeviceArg(calls[cur["usb"]]))
         /\ UNCHANGED usbVars]_vars

====
